---- MODULE Spec2Model ----
(***************************************************************************)
(* A model of newt/basemodels.py: the pseudo-likelihood site store         *)
(* (GaussianDistribution) and the four posterior strategies GP, SparseGP,  *)
(* MarkovGP and SparseMarkovGP, driven through their public methods in any *)
(* order, as the classes allow.                                            *)
(*                                                                         *)
(* Numbers.  A float is modelled by an exact rational <<n, d>> in lowest   *)
(* terms with d > 0; every non-finite float (nan, inf) is the one          *)
(* absorbing element NonFinite = <<0, 0>>.  Arrays are sequences: a column *)
(* vector is a sequence of numbers, a matrix a sequence of rows, a batched *)
(* array a sequence of those.  Indices are 1-based (source index i is      *)
(* model index i + 1).                                                     *)
(***************************************************************************)
EXTENDS Integers, Sequences, FiniteSets, TLC

\* ------------------------------------------------------------------------
\* Float arithmetic (exact rationals, one non-finite element)
\* ------------------------------------------------------------------------

NonFinite == <<0, 0>>

IsFinite(x) == x[2] # 0

\* AsSeq(f): the function f as an explicit tuple.  TLC keeps [i \in S |-> e]
\* unevaluated and recomputes e at every application; an array is a value.
AsSeq(f) == f \o <<>>

Abs(n) == IF n < 0 THEN -n ELSE n

RECURSIVE GCD(_, _)
GCD(a, b) == IF b = 0 THEN a ELSE GCD(b, a % b)

Norm(n, d) ==
    IF d = 0 THEN NonFinite
    ELSE LET g == GCD(Abs(n), Abs(d))
             s == IF d < 0 THEN -1 ELSE 1
         IN  <<s * (n \div g), s * (d \div g)>>

Rat(n) == <<n, 1>>

Zero == Rat(0)

One == Rat(1)

Add(x, y) ==
    IF IsFinite(x) /\ IsFinite(y)
    THEN LET g == GCD(x[2], y[2])
         IN  Norm(x[1] * (y[2] \div g) + y[1] * (x[2] \div g), x[2] * (y[2] \div g))
    ELSE NonFinite

Sub(x, y) == Add(x, IF IsFinite(y) THEN <<-y[1], y[2]>> ELSE NonFinite)

Mul(x, y) ==
    IF IsFinite(x) /\ IsFinite(y)
    THEN LET g1 == GCD(Abs(x[1]), y[2])
             g2 == GCD(Abs(y[1]), x[2])
         IN  IF g1 = 0 \/ g2 = 0 THEN Zero
             ELSE Norm((x[1] \div g1) * (y[1] \div g2), (x[2] \div g2) * (y[2] \div g1))
    ELSE NonFinite

\* x / 0 is inf or nan in floating point: non-finite either way.
Div(x, y) ==
    IF IsFinite(x) /\ IsFinite(y) /\ y[1] # 0
    THEN Mul(x, Norm(y[2], y[1]))
    ELSE NonFinite

\* ------------------------------------------------------------------------
\* Vectors and matrices
\* ------------------------------------------------------------------------

zeros(n) == AsSeq([i \in 1..n |-> Zero])

eye(n) == AsSeq([i \in 1..n |-> AsSeq([j \in 1..n |-> IF i = j THEN One ELSE Zero])])

RECURSIVE SumTo(_, _)
SumTo(f, n) == IF n = 0 THEN Zero ELSE Add(SumTo(f, n - 1), f[n])

Dot(u, v) == SumTo(AsSeq([k \in 1..Len(u) |-> Mul(u[k], v[k])]), Len(u))

transpose(A) ==
    IF Len(A) = 0 THEN <<>>
    ELSE AsSeq([j \in 1..Len(A[1]) |-> AsSeq([i \in 1..Len(A) |-> A[i][j]])])

MatMul(A, B) ==
    LET Bt == transpose(B)
    IN  AsSeq([i \in 1..Len(A) |-> AsSeq([j \in 1..Len(Bt) |-> Dot(A[i], Bt[j])])])

MatAdd(A, B) == AsSeq([i \in 1..Len(A) |-> AsSeq([j \in 1..Len(A[i]) |-> Add(A[i][j], B[i][j])])])

MatSub(A, B) == AsSeq([i \in 1..Len(A) |-> AsSeq([j \in 1..Len(A[i]) |-> Sub(A[i][j], B[i][j])])])

Scale(c, A) == AsSeq([i \in 1..Len(A) |-> AsSeq([j \in 1..Len(A[i]) |-> Mul(c, A[i][j])])])

\* a column vector as an n x 1 matrix, and back
Col(v) == AsSeq([i \in 1..Len(v) |-> <<v[i]>>])

Vec(A) == AsSeq([i \in 1..Len(A) |-> A[i][1]])

MatVec(A, v) == AsSeq([i \in 1..Len(A) |-> Dot(A[i], v)])

VecAdd(u, v) == AsSeq([i \in 1..Len(u) |-> Add(u[i], v[i])])

VecSub(u, v) == AsSeq([i \in 1..Len(u) |-> Sub(u[i], v[i])])

VecScale(c, v) == AsSeq([i \in 1..Len(v) |-> Mul(c, v[i])])

\* np.diag of a vector
DiagMat(v) == AsSeq([i \in 1..Len(v) |-> AsSeq([j \in 1..Len(v) |-> IF i = j THEN v[i] ELSE Zero])])

\* cho_solve(cho_factor(A), B): the Cholesky factor exists exactly when every
\* pivot of the elimination is positive, and the solve then returns A^-1 B;
\* jax raises nothing on a matrix that is not positive definite, it returns
\* non-finite entries.
RECURSIVE Eliminate(_, _, _)
Eliminate(A, B, k) ==
    IF k > Len(A) THEN B
    ELSE IF ~(IsFinite(A[k][k]) /\ A[k][k][1] > 0)
    THEN AsSeq([i \in 1..Len(B) |-> AsSeq([j \in 1..Len(B[1]) |-> NonFinite])])
    ELSE LET p  == A[k][k]
             Ak == AsSeq([j \in 1..Len(A) |-> Div(A[k][j], p)])
             Bk == AsSeq([j \in 1..Len(B[k]) |-> Div(B[k][j], p)])
             A2 == AsSeq([i \in 1..Len(A) |->
                      IF i = k THEN Ak
                      ELSE AsSeq([j \in 1..Len(A) |-> Sub(A[i][j], Mul(A[i][k], Ak[j]))])])
             B2 == AsSeq([i \in 1..Len(B) |->
                      IF i = k THEN Bk
                      ELSE AsSeq([j \in 1..Len(B[i]) |-> Sub(B[i][j], Mul(A[i][k], Bk[j]))])])
         IN  Eliminate(A2, B2, k + 1)

cho_solve(A, B) == Eliminate(A, B, 1)

inv(P) == cho_solve(P, eye(Len(P)))

\* the batched inverse: one inverse per leading index.  The call sites that
\* want jitter add it themselves (basemodels.py lines 386 and 557).
inv_vmap(P) == AsSeq([n \in 1..Len(P) |-> inv(P[n])])

\* ------------------------------------------------------------------------
\* Bounds and data
\* ------------------------------------------------------------------------

\* number of training inputs (rows of X)
NumData == 2

\* number of inducing inputs handed to the sparse constructors
NumInducing == 1

\* group_natural_params results fed back into the site store, at most
MaxCycles == 1

\* Training inputs: sorted, distinct times 0, 1, 2, ... (one time unit of the
\* model is ten units of the source's float time axis, so that the sentinel
\* 1e10 below fits a machine integer).
X == AsSeq([n \in 1..NumData |-> n - 1])

\* Inducing inputs as handed to the constructors.
Zgiven == AsSeq([m \in 1..NumInducing |-> m])

\* np.array([[1e10]]), in model time units
inf == 1000000000

\* An observation is a finite number or nan; only nan-ness is read by the model.
Observed == One

\* ------------------------------------------------------------------------
\* The kernel callbacks (an exponential, Matern-1/2, kernel with unit
\* variance whose correlation halves per time unit; state dimension 1)
\* ------------------------------------------------------------------------

VARIABLES
    kernel,                \* the state of the kernel object: its hyperparameters
    likelihood             \* the state of the likelihood object: its hyperparameters

\* the kernel and the likelihood the constructors are handed
KernelGiven == [variance |-> One]

LikelihoodGiven == [variance |-> One]

Half == <<1, 2>>

\* exp(-dt / lengthscale): underflows to exactly 0 across a sentinel gap
RECURSIVE Decay(_)
Decay(dt) ==
    IF dt > 1000 THEN Zero
    ELSE IF dt = 0 THEN One
    ELSE Mul(Half, Decay(dt - 1))

stationary_covariance == <<<<kernel.variance>>>>

state_transition(dt) == <<<<Decay(dt)>>>>

measurement_model == <<<<One>>>>

\* kernel(X1, X2): the covariance matrix between two lists of inputs
K(X1, X2) ==
    AsSeq([i \in 1..Len(X1) |-> AsSeq([j \in 1..Len(X2) |->
        Mul(kernel.variance, Decay(Abs(X1[i] - X2[j])))])])

state_dim == Len(stationary_covariance)

\* Q = Pinf - A Pinf A'
process_noise_covariance(A, Pinf) == MatSub(Pinf, MatMul(MatMul(A, Pinf), transpose(A)))

\* ------------------------------------------------------------------------
\* State
\* ------------------------------------------------------------------------

VARIABLES
    variant,               \* the class constructed: GP, SparseGP, MarkovGP, SparseMarkovGP
    constructed,           \* FALSE when the constructor raised: there is no object
    num_data,              \* self.num_data
    mask_y,                \* self.mask_y, one entry per row of Y
    mask_pseudo_y,         \* self.mask_pseudo_y, <<>> for None
    Z,                     \* self.Z (sparse variants), <<>> otherwise
    ind,                   \* self.ind
    num_neighbours,        \* self.num_neighbours
    pseudo_likelihood,     \* the site store: [mean, covariance, nat1, nat2]
    posterior_mean,        \* self.posterior_mean
    posterior_variance,    \* self.posterior_variance
    posterior_covariance,  \* self.posterior_covariance (SparseGP), <<>> otherwise
    conditional_mean,      \* self.conditional_mean (SparseMarkovGP), <<>> for None
    ret,                   \* the last call: [op, arg, val, err]
    conditional_mean_at,   \* history: the batch and cycle of the call that cached conditional_mean
    sites_changed,         \* history: a site mutator ran since the last update_posterior
    Z_arg,                 \* history: the Z the constructor was called with, <<>> if none
    fresh_prior_sample,    \* history: what prior_sample returned, per argument, had it
                           \* been called on the model as constructed
    predictions_before_update,  \* history: what predict returned, per argument, had it
                           \* been called just before the last update_posterior
    cycles                 \* history: group results fed back so far

fixed == <<variant, constructed, num_data, mask_y, mask_pseudo_y, Z, ind, num_neighbours, Z_arg,
           fresh_prior_sample, kernel, likelihood>>

posterior == <<posterior_mean, posterior_variance, posterior_covariance>>

projector == <<conditional_mean, conditional_mean_at>>

vars == <<fixed, pseudo_likelihood, posterior, projector, ret, sites_changed, cycles,
         predictions_before_update>>

None == <<>>

\* ------------------------------------------------------------------------
\* GaussianDistribution
\* ------------------------------------------------------------------------

\* a faulty reparametrise that hands the parameters back unsolved
reparametrise_unsolved(param1, param2) == [reparam1 |-> param1, reparam2 |-> param2]

\* per site: chol = cho_factor(param2); cho_solve(chol, param1), cho_solve(chol, I)
reparametrise(param1, param2) ==
    [reparam1 |-> AsSeq([n \in 1..Len(param2) |-> Vec(cho_solve(param2[n], Col(param1[n])))]),
     reparam2 |-> AsSeq([n \in 1..Len(param2) |-> cho_solve(param2[n], eye(Len(param2[n])))])]

GaussianDistribution(mean, covariance) ==
    LET store(nat) == [mean |-> mean, covariance |-> covariance,
                       nat1 |-> nat.reparam1, nat2 |-> nat.reparam2]
    IN  store(reparametrise(mean, covariance))

\* ------------------------------------------------------------------------
\* Constructors
\* ------------------------------------------------------------------------

isnan(y) == ~IsFinite(y)

tile(A, n) == AsSeq([k \in 1..n |-> A])

arange(n) == AsSeq([k \in 1..n |-> k])

\* np.searchsorted(z, t) - 1 (side = left): the interval k with z[k] < t <= z[k+1];
\* num_neighbours[k] counts the data assigned to interval k.
set_z_stats(t, z) ==
    LET idx == AsSeq([n \in 1..Len(t) |-> Cardinality({k \in 1..Len(z) : z[k] < t[n]})])
    IN  [ind |-> idx,
         num_neighbours |-> AsSeq([k \in 1..(Len(z) - 1) |-> Cardinality({n \in 1..Len(t) : idx[n] = k})])]

\* np.sort of a list of times
RECURSIVE Insert(_, _)
Insert(x, s) ==
    IF s = <<>> THEN <<x>>
    ELSE IF x <= Head(s) THEN <<x>> \o s
    ELSE <<Head(s)>> \o Insert(x, Tail(s))

RECURSIVE sort(_)
sort(s) == IF s = <<>> THEN <<>> ELSE Insert(Head(s), sort(Tail(s)))

diff(z) == AsSeq([k \in 1..(Len(z) - 1) |-> z[k + 1] - z[k]])

\* BaseModel.__init__ with the posterior variance allocated like the sites
BaseModel_init_wide_posterior(Xin, Yin, func_dim) ==
    LET n == Len(Xin)
        m == AsSeq([k \in 1..Len(Yin) |-> isnan(Yin[k])])
    IN  [num_data |-> n,
         pseudo_likelihood |-> GaussianDistribution(tile(zeros(1), n),
                                                    tile(Scale(Rat(100), eye(1)), n)),
         posterior_mean |-> tile(zeros(func_dim), n),
         posterior_variance |-> tile(Scale(Rat(100), eye(func_dim)), n),
         ind |-> arange(n),
         num_neighbours |-> tile(1, n),
         mask_y |-> m,
         mask_pseudo_y |-> m]

\* BaseModel.__init__ with a kernel that is not Independent: obs_dim = 1,
\* pseudo_lik_size = obs_dim.
BaseModel_init(Xin, Yin, func_dim) ==
    LET n == Len(Xin)
        m == AsSeq([k \in 1..Len(Yin) |-> isnan(Yin[k])])
    IN  [num_data |-> n,
         pseudo_likelihood |-> GaussianDistribution(tile(zeros(1), n),
                                                    tile(Scale(Rat(100), eye(1)), n)),
         posterior_mean |-> tile(zeros(func_dim), n),
         posterior_variance |-> tile(eye(func_dim), n),
         ind |-> arange(n),
         num_neighbours |-> tile(1, n),
         mask_y |-> m,
         mask_pseudo_y |-> m]

\* GP.__init__
GP_init(Xin, Yin) ==
    BaseModel_init(Xin, Yin, 1) @@
    [ok |-> TRUE, Z |-> None, posterior_covariance |-> None, conditional_mean |-> None]

\* SparseGP.__init__ (opt_z = False): the posterior is over the inducing points
SparseGP_init(Xin, Yin, Zin) ==
    LET base == GP_init(Xin, Yin)
        num_inducing == Len(Zin)
    IN  [base EXCEPT !.Z = Zin,
                     !.posterior_mean = tile(zeros(1), num_inducing),
                     !.posterior_variance = tile(eye(1), num_inducing),
                     !.posterior_covariance = eye(num_inducing)]

\* input_admin(X, Y, R): asserts that X and Y have as many rows, orders the
\* inputs by time and returns the step sizes dt[0] = 0, dt[n] = t[n] - t[n-1].
input_admin(Xin, Yin) ==
    [ok |-> Len(Xin) = Len(Yin),
     X  |-> Xin,
     Y  |-> Yin,
     dt |-> AsSeq([n \in 1..Len(Xin) |-> IF n = 1 THEN 0 ELSE Xin[n] - Xin[n - 1]])]

\* the object of a constructor that raised: nothing is bound
NoObject ==
    [ok |-> FALSE, num_data |-> 0, pseudo_likelihood |-> None, posterior_mean |-> None,
     posterior_variance |-> None, ind |-> None, num_neighbours |-> None, mask_y |-> None,
     mask_pseudo_y |-> None, Z |-> None, posterior_covariance |-> None,
     conditional_mean |-> None]

\* MarkovGP.__init__ (R = None, so not spatio-temporal): func_dim = H.shape[0]
MarkovGP_init(Xin, Yin) ==
    LET adm == input_admin(Xin, Yin)
    IN  IF ~adm.ok THEN NoObject
        ELSE BaseModel_init(adm.X, adm.Y, Len(measurement_model)) @@
             [ok |-> TRUE, Z |-> None, posterior_covariance |-> None,
              conditional_mean |-> None]

\* 1e-8 and 1e-2
Jitter == <<1, 100000000>>

Hundredth == <<1, 100>>

\* Z between the two sentinels, in the order it was given
augment_unsorted(Zin) == <<-inf>> \o Zin \o <<inf>>

\* np.concatenate([-inf, np.sort(Z, axis=0), inf]) with inf = 1e10
augment(Zin) == <<-inf>> \o sort(Zin) \o <<inf>>

\* the initial site precision with 1e-2 at index state_dim of every interval
initial_nat2_every_interval(num_transitions, d) ==
    AsSeq([k \in 1..num_transitions |->
        AsSeq([i \in 1..d |-> AsSeq([j \in 1..d |->
            IF i # j THEN Zero
            ELSE IF i = state_dim + 1 THEN Hundredth
            ELSE Jitter])])])

\* index_update(1e-8 * eyes, index[:-1, state_dim, state_dim], 1e-2): the
\* last interval keeps 1e-8 (index state_dim of the code is state_dim + 1 here)
initial_nat2(num_transitions, d) ==
    AsSeq([k \in 1..num_transitions |->
        AsSeq([i \in 1..d |-> AsSeq([j \in 1..d |->
            IF i # j THEN Zero
            ELSE IF k < num_transitions /\ i = state_dim + 1 THEN Hundredth
            ELSE Jitter])])])

\* SparseMarkovGP.__init__
SparseMarkovGP_init(Xin, Yin, Zin) ==
    LET base == MarkovGP_init(Xin, Yin)
        Zs == augment(Zin)
        dz == diff(Zs)
        num_transitions == Len(dz)
        d == 2 * state_dim
        eyes == tile(eye(d), num_transitions)
        nat2 == initial_nat2(num_transitions, d)
        stats == set_z_stats(Xin, Zs)
    IN  IF ~base.ok THEN NoObject
        ELSE [base EXCEPT !.Z = Zs,
                          !.pseudo_likelihood =
                              GaussianDistribution(tile(zeros(d), num_transitions),
                                                   inv_vmap(nat2)),
                          !.posterior_mean = tile(zeros(d), num_transitions),
                          !.posterior_variance = eyes,
                          !.mask_pseudo_y = None,
                          !.conditional_mean = None,
                          !.ind = stats.ind,
                          !.num_neighbours = stats.num_neighbours]

Construct(v, Yin) ==
    CASE v = "GP" -> GP_init(X, Yin)
      [] v = "SparseGP" -> SparseGP_init(X, Yin, Zgiven)
      [] v = "MarkovGP" -> MarkovGP_init(X, Yin)
      [] v = "SparseMarkovGP" -> SparseMarkovGP_init(X, Yin, Zgiven)

\* The observation columns a model is built with: all observed, or one row
\* more than X has; the dense and the Markov model, whose update_posterior is
\* where a mask could act, are also built with the last row missing (nan).
YInputs(v) ==
    {AsSeq([n \in 1..NumData |-> Observed]),
     AsSeq([n \in 1..(NumData + 1) |-> Observed])} \cup
    (IF v \in {"GP", "MarkovGP"}
     THEN {AsSeq([n \in 1..NumData |-> IF n = NumData THEN NonFinite ELSE Observed])}
     ELSE {})

reverse(b) == AsSeq([i \in 1..Len(b) |-> b[Len(b) + 1 - i]])

\* self.dt of the Markov variants
dt_train == input_admin(X, X).dt

\* an application of a routine that is kept unevaluated
Term(fn, args) == [fn |-> fn, args |-> args]

\* ------------------------------------------------------------------------
\* prior_sample
\* ------------------------------------------------------------------------

\* objax.random.normal(shape, generator = Generator(seed)): the draws are a
\* function of the seed and the shape
normal(shape, seed) == Term("normal", <<shape, seed>>)

\* GP.prior_sample with the sites' means added to the draws
GP_prior_sample_around_sites(num_samps, Xarg, seed) ==
    LET Xs == IF Xarg = None THEN X ELSE Xarg
    IN  [err |-> "",
         val |-> Term("m + chol_K @ rand_norm_samples",
                      <<pseudo_likelihood.mean, K(Xs, Xs),
                        normal(<<num_samps, Len(Xs), 1>>, seed)>>)]

\* GP.prior_sample: m + cholesky(K(X, X) + 1e-12 I) @ normal, X the training
\* inputs unless given
GP_prior_sample(num_samps, Xarg, seed) ==
    LET Xs == IF Xarg = None THEN X ELSE Xarg
    IN  [err |-> "",
         val |-> Term("m + chol_K @ rand_norm_samples",
                      <<zeros(Len(Xs)), K(Xs, Xs),
                        normal(<<num_samps, Len(Xs), 1>>, seed)>>)]

\* the seed of gen0, the generator of the initial state of draw i (from 0)
gen0_seed(seed, i) == seed - 1 - i

\* the seed of gen, the generator of time step k (from 0) of draw i (from 0)
gen_seed(seed, i, k) == seed + i * k + k

\* sample_one_time_step, unrolled: the state after the steps 0..k-1 of draw i
RECURSIVE sample_time_steps(_, _, _, _)
sample_time_steps(dt, seed, i, k) ==
    IF k = 0
    THEN Term("cholesky(Pinf) @ normal",
              <<stationary_covariance, normal(<<state_dim, 1>>, gen0_seed(seed, i))>>)
    ELSE LET step(A) ==
                 Term("A @ m + cholesky(Q + jitter) @ normal",
                      <<A, sample_time_steps(dt, seed, i, k - 1),
                        process_noise_covariance(A, stationary_covariance),
                        normal(<<state_dim, 1>>, gen_seed(seed, i, k - 1))>>)
         IN  step(state_transition(dt[k]))

\* MarkovGP.prior_sample: draw i is f[k] = H m[k] for the steps of dt, the
\* training steps unless X is given
MarkovGP_prior_sample(num_samps, Xarg, seed) ==
    LET dt == IF Xarg = None THEN dt_train ELSE <<0>> \o diff(sort(Xarg))
    IN  [err |-> "",
         val |-> AsSeq([i \in 1..num_samps |-> AsSeq([k \in 1..Len(dt) |->
                     Term("H @ m", <<measurement_model,
                                     sample_time_steps(dt, seed, i - 1, k)>>)])])]

\* prior_sample of the class constructed: SparseGP has BaseModel's,
\* SparseMarkovGP has MarkovGP's
prior_sample(num_samps, Xarg, seed) ==
    CASE variant = "GP" -> GP_prior_sample(num_samps, Xarg, seed)
      [] variant = "SparseGP" -> [err |-> "NotImplementedError", val |-> <<>>]
      [] variant \in {"MarkovGP", "SparseMarkovGP"} ->
             MarkovGP_prior_sample(num_samps, Xarg, seed)

\* the arguments sampling is called with
Seeds == {0, 1}

NumSamps == {2}

\* test inputs: the training inputs (None), or a time past the last training
\* input followed by the first training input
TestInputs == {None, <<X[NumData] + 1, X[1]>>}

SampleArgs == [num_samps : NumSamps, X : TestInputs, seed : Seeds]

NoProjector == [batch |-> <<>>, cycle |-> 0]

NoCall == [op |-> "none", arg |-> <<>>, val |-> <<>>, err |-> ""]

Init ==
    \E v \in {"GP", "SparseGP", "MarkovGP", "SparseMarkovGP"} : \E Yin \in YInputs(v) :
        LET bound(obj) ==
                /\ kernel = KernelGiven
                /\ likelihood = LikelihoodGiven
                /\ variant = v
                /\ Z_arg = (IF v \in {"SparseGP", "SparseMarkovGP"} THEN Zgiven ELSE None)
                /\ constructed = obj.ok
                /\ num_data = obj.num_data
                /\ mask_y = obj.mask_y
                /\ mask_pseudo_y = obj.mask_pseudo_y
                /\ Z = obj.Z
                /\ ind = obj.ind
                /\ num_neighbours = obj.num_neighbours
                /\ pseudo_likelihood = obj.pseudo_likelihood
                /\ posterior_mean = obj.posterior_mean
                /\ posterior_variance = obj.posterior_variance
                /\ posterior_covariance = obj.posterior_covariance
                /\ conditional_mean = obj.conditional_mean
                /\ conditional_mean_at = NoProjector
                /\ ret = NoCall
                /\ sites_changed = TRUE
                /\ cycles = 0
                /\ predictions_before_update = {}
                /\ fresh_prior_sample =
                       [a \in SampleArgs |-> prior_sample(a.num_samps, a.X, a.seed)]
        IN  bound(Construct(v, Yin))

\* ------------------------------------------------------------------------
\* Posterior operators (newt/ops.py)
\* ------------------------------------------------------------------------

\* the scalar sites of the unstructured variants as one diagonal matrix
SiteDiag(cov) == DiagMat(AsSeq([n \in 1..Len(cov) |-> cov[n][1][1]]))

SiteCol(mean) == AsSeq([n \in 1..Len(mean) |-> <<mean[n][1]>>])

\* gaussian_conditional(kernel, y, noise_cov, X, X_star):
\*   mean = K*x (Kxx + diag(noise))^-1 y, cov = K** - K*x (Kxx + diag(noise))^-1 Kx*
gaussian_conditional(y, noise_cov, Xtr, Xstar) ==
    LET Ky == MatAdd(K(Xtr, Xtr), SiteDiag(noise_cov))
        condition(Ksx, W) ==
            [mean |-> Vec(MatMul(W, SiteCol(y))),
             covariance |-> MatSub(K(Xstar, Xstar), MatMul(W, transpose(Ksx)))]
        solve(Ksx) == condition(Ksx, transpose(cho_solve(Ky, transpose(Ksx))))
    IN  solve(K(Xstar, Xtr))

\* sparse_gaussian_conditional(kernel, nat1, nat2, X, Z):
\*   Wuf = Kuu^-1 Kuf, nat1_u = sum_f Wuf nat1_f, nat2_u = Kuu^-1 + sum_f Wuf nat2_f Wuf',
\*   the mean and covariance of q(u)
sparse_gaussian_conditional(nat1, nat2, Xtr, Zu) ==
    LET moments(cov, n1u) == [mean |-> Vec(MatMul(cov, n1u)), covariance |-> cov]
        project(Kuu, Wuf) ==
            LET n2u == MatAdd(inv(Kuu), MatMul(MatMul(Wuf, SiteDiag(nat2)), transpose(Wuf)))
            IN  moments(inv(n2u), MatMul(Wuf, SiteCol(nat1)))
        weights(Kuu) == project(Kuu, cho_solve(Kuu, K(Zu, Xtr)))
    IN  weights(K(Zu, Zu))

\* One step of the sequential Kalman filter: predict with A = Phi(dt),
\* Q = Pinf - A Pinf A', then update with the site unless the row is masked
\* (a masked row has its innovation and S^-1 set to zero).
kalman_step(m, P, step, y, R, masked) ==
    LET H == measurement_model
        correct(mp, Pp, G, v) ==
            [m |-> VecAdd(mp, MatVec(G, v)),
             P |-> MatSub(Pp, MatMul(MatMul(G, H), Pp))]
        update(mp, Pp) ==
            LET v    == IF masked THEN zeros(Len(H)) ELSE VecSub(y, MatVec(H, mp))
                S    == MatAdd(MatMul(MatMul(H, Pp), transpose(H)), R)
                Sinv == IF masked THEN Scale(Zero, eye(Len(H))) ELSE inv(S)
            IN  correct(mp, Pp, MatMul(MatMul(Pp, transpose(H)), Sinv), v)
        predict(A) ==
            LET Q == process_noise_covariance(A, stationary_covariance)
            IN  update(MatVec(A, m), MatAdd(MatMul(MatMul(A, P), transpose(A)), Q))
    IN  predict(state_transition(step))

\* kalman_filter(dt, kernel, y, noise_cov, mask): the filtered means and
\* covariances, from the stationary state (0, Pinf); mask = None masks nothing.
RECURSIVE kalman_filter(_, _, _, _, _)
kalman_filter(steps, y, noise_cov, mask, n) ==
    IF n = 0 THEN <<>>
    ELSE LET masked == IF mask = None THEN FALSE ELSE mask[n]
             extend(before) ==
                 LET m0 == IF n = 1 THEN zeros(state_dim) ELSE before[n - 1].m
                     P0 == IF n = 1 THEN stationary_covariance ELSE before[n - 1].P
                 IN  Append(before, kalman_step(m0, P0, steps[n], y[n], noise_cov[n], masked))
         IN  extend(kalman_filter(steps, y, noise_cov, mask, n - 1))

\* rauch_tung_striebel_smoother(dt, kernel, filter_mean, filter_cov): the
\* backward pass from the last filtered state, with the gain
\* G_n = P_f,n A' P_pred,n+1^-1; steps[n] is the step from n to n + 1.
RECURSIVE rauch_tung_striebel_smoother(_, _, _)
rauch_tung_striebel_smoother(steps, filt, n) ==
    LET N == Len(filt)
        correct(next, pm, pP, G) ==
            [m |-> VecAdd(filt[n].m, MatVec(G, VecSub(next.m, pm))),
             P |-> MatAdd(filt[n].P, MatMul(MatMul(G, MatSub(next.P, pP)), transpose(G))),
             G |-> G]
        gain(next, A, pP) ==
            correct(next, MatVec(A, filt[n].m), pP,
                    transpose(cho_solve(pP, MatMul(A, filt[n].P))))
        predict(next, A) ==
            LET Q == process_noise_covariance(A, stationary_covariance)
            IN  gain(next, A, MatAdd(MatMul(MatMul(A, filt[n].P), transpose(A)), Q))
        prepend(rest) ==
            LET next == IF n = N THEN [m |-> filt[N].m, P |-> filt[N].P] ELSE rest[1]
            IN  <<predict(next, state_transition(steps[n]))>> \o rest
    IN  prepend(IF n = N THEN <<>> ELSE rauch_tung_striebel_smoother(steps, filt, n + 1))

\* np.concatenate([dt[1:], [0.0]])
shift(steps) == AsSeq([n \in 1..Len(steps) |-> IF n < Len(steps) THEN steps[n + 1] ELSE 0])

\* sparse_conditional_post_to_data(kernel, post_mean, post_cov, X, Z): q(u)
\* mapped to the function at X through the conditional prior p(f | u)
sparse_conditional_post_to_data(post_mean, post_cov, Xs, Zu) ==
    LET project(Kuu, Wt) ==
            [mean |-> Vec(MatMul(Wt, Col(post_mean))),
             covariance |-> MatSub(K(Xs, Xs),
                                   MatMul(MatMul(Wt, MatSub(Kuu, post_cov)), transpose(Wt)))]
        weights(Kuu) == project(Kuu, transpose(cho_solve(Kuu, K(Zu, Xs))))
    IN  weights(K(Zu, Zu))

\* compute_cavity(post_mean, post_cov, site_nat1, site_nat2, power):
\*   cav_cov = (post_cov^-1 - power nat2)^-1,
\*   cav_mean = cav_cov (post_cov^-1 post_mean - power nat1)
compute_cavity(post_mean, post_cov, site_nat1, site_nat2, power) ==
    LET cavity(post_nat2, cav_cov) ==
            [mean |-> MatVec(cav_cov, VecSub(MatVec(post_nat2, post_mean),
                                            VecScale(power, site_nat1))),
             cov  |-> cav_cov]
        remove(post_nat2) ==
            cavity(post_nat2, inv(MatSub(post_nat2, Scale(power, site_nat2))))
    IN  remove(inv(post_cov))

\* ------------------------------------------------------------------------
\* Site store mutators
\* ------------------------------------------------------------------------

Called(op, arg, val) == [op |-> op, arg |-> arg, val |-> val, err |-> ""]

Raised(op, arg, err) == [op |-> op, arg |-> arg, val |-> <<>>, err |-> err]

\* cho_factor and cho_solve raise when they are handed no array
reparametrise_raises(param1, param2) == param1 = None \/ param2 = None

\* mean_ and covariance_ are assigned before reparametrise is called: when it
\* raises, nat1_ and nat2_ are left as they were
update_mean_cov(mean, covariance) ==
    LET store(nat) == [mean |-> mean, covariance |-> covariance,
                       nat1 |-> nat.reparam1, nat2 |-> nat.reparam2]
    IN  /\ constructed
        /\ IF reparametrise_raises(mean, covariance)
           THEN /\ pseudo_likelihood' = [pseudo_likelihood EXCEPT !.mean = mean,
                                                                  !.covariance = covariance]
                /\ ret' = Raised("update_mean_cov", <<>>, "TypeError")
           ELSE /\ pseudo_likelihood' = store(reparametrise(mean, covariance))
                /\ ret' = Called("update_mean_cov", <<>>, <<>>)
        /\ sites_changed' = TRUE
        /\ UNCHANGED <<fixed, posterior, projector>>

\* a faulty bookkeeping of update_nat_params: the mutation is not recorded
update_nat_params_unrecorded(nat1, nat2) ==
    LET store(mom) == [mean |-> mom.reparam1, covariance |-> mom.reparam2,
                       nat1 |-> nat1, nat2 |-> nat2]
    IN  /\ constructed
        /\ pseudo_likelihood' = store(reparametrise(nat1, nat2))
        /\ ret' = Called("update_nat_params", <<>>, <<>>)
        /\ UNCHANGED <<fixed, posterior, projector, sites_changed>>

\* nat1_ and nat2_ are assigned before reparametrise is called: when it
\* raises, mean_ and covariance_ are left as they were
update_nat_params(nat1, nat2) ==
    LET store(mom) == [mean |-> mom.reparam1, covariance |-> mom.reparam2,
                       nat1 |-> nat1, nat2 |-> nat2]
    IN  /\ constructed
        /\ IF reparametrise_raises(nat1, nat2)
           THEN /\ pseudo_likelihood' = [pseudo_likelihood EXCEPT !.nat1 = nat1,
                                                                  !.nat2 = nat2]
                /\ ret' = Raised("update_nat_params", <<>>, "TypeError")
           ELSE /\ pseudo_likelihood' = store(reparametrise(nat1, nat2))
                /\ ret' = Called("update_nat_params", <<>>, <<>>)
        /\ sites_changed' = TRUE
        /\ UNCHANGED <<fixed, posterior, projector>>

\* What the inference engine hands to the mutators: one positive-definite
\* (diagonal) second parameter and a first parameter per site.  Scalar sites take whole values; paired-state
\* sites take sixteenths, which keeps the exact sums with 1e-8 within TLC's
\* integers.
SiteValue(c, d) == Norm(c, IF d = 1 THEN 1 ELSE 16)

SiteParam1(c, d) == AsSeq([i \in 1..d |-> SiteValue(c + i - 1, d)])

SiteParam2(c, d) == DiagMat(SiteParam1(c, d))

\* site n is handed the value n
SiteInputs ==
    LET ns == Len(pseudo_likelihood.mean)
        d  == Len(pseudo_likelihood.mean[1])
    IN  {<<AsSeq([n \in 1..ns |-> SiteParam1(n, d)]), AsSeq([n \in 1..ns |-> SiteParam2(n, d)])>>}

\* the same first parameters with no second parameter
MalformedSiteInputs == {<<p[1], None>> : p \in SiteInputs}

\* update_mean_cov called with well-formed or malformed arguments
UpdateMeanCov ==
    /\ constructed
    /\ \E p \in SiteInputs \cup MalformedSiteInputs : update_mean_cov(p[1], p[2])
    /\ UNCHANGED <<cycles, predictions_before_update>>

\* update_nat_params called with well-formed or malformed arguments
UpdateNatParams ==
    /\ constructed
    /\ \E p \in SiteInputs \cup MalformedSiteInputs : update_nat_params(p[1], p[2])
    /\ UNCHANGED <<cycles, predictions_before_update>>

SetMeanCov ==
    /\ constructed
    /\ \E p \in SiteInputs : update_mean_cov(p[1], p[2])
    /\ UNCHANGED <<cycles, predictions_before_update>>

SetNatParams ==
    /\ constructed
    /\ \E p \in SiteInputs : update_nat_params(p[1], p[2])
    /\ UNCHANGED <<cycles, predictions_before_update>>

\* the engine's own use: the grouped naturals go back into the store
StoreGrouped ==
    /\ constructed
    /\ ret.op = "group_natural_params"
    /\ ret.err = ""
    /\ cycles < MaxCycles
    /\ update_nat_params(ret.val[1], ret.val[2])
    /\ cycles' = cycles + 1
    /\ UNCHANGED predictions_before_update

\* ------------------------------------------------------------------------
\* update_posterior
\* ------------------------------------------------------------------------

\* GP.update_posterior without the reshape to one entry per datum
GP_update_posterior_unshaped(lik) ==
    LET store(post) ==
            [mean       |-> post.mean,
             variance   |-> AsSeq([n \in 1..num_data |-> post.covariance[n][n]]),
             covariance |-> posterior_covariance]
    IN  store(gaussian_conditional(lik.mean, lik.covariance, X, X))

\* GP.update_posterior: the conditional at the training inputs, all rows used
GP_update_posterior(lik) ==
    LET reshape(post) ==
            [mean       |-> AsSeq([n \in 1..num_data |-> <<post.mean[n]>>]),
             variance   |-> AsSeq([n \in 1..num_data |-> <<<<post.covariance[n][n]>>>>]),
             covariance |-> posterior_covariance]
    IN  reshape(gaussian_conditional(lik.mean, lik.covariance, X, X))

\* SparseGP.update_posterior: q(u) from the site naturals
SparseGP_update_posterior(lik) ==
    LET num_inducing == Len(Z)
        reshape(post) ==
            [mean       |-> AsSeq([m \in 1..num_inducing |-> <<post.mean[m]>>]),
             variance   |-> AsSeq([m \in 1..num_inducing |-> <<<<post.covariance[m][m]>>>>]),
             covariance |-> post.covariance]
    IN  reshape(sparse_gaussian_conditional(lik.nat1, lik.nat2, X, Z))

\* MarkovGP.update_posterior without the backward pass: the filtered moments
MarkovGP_update_posterior_unsmoothed(lik) ==
    LET H == measurement_model
        moments(filt) ==
            [mean       |-> AsSeq([n \in 1..num_data |-> MatVec(H, filt[n].m)]),
             variance   |-> AsSeq([n \in 1..num_data |->
                                MatMul(MatMul(H, filt[n].P), transpose(H))]),
             covariance |-> posterior_covariance]
    IN  moments(kalman_filter(dt_train, lik.mean, lik.covariance, mask_pseudo_y, num_data))

\* MarkovGP.update_posterior: filter with mask_pseudo_y, then smooth; the
\* smoother is called without return_full and hands back the moments of the
\* function H x_n.
MarkovGP_update_posterior(lik) ==
    LET filt == kalman_filter(dt_train, lik.mean, lik.covariance, mask_pseudo_y, num_data)
        H == measurement_model
        moments(smoothed) ==
            [mean       |-> AsSeq([n \in 1..num_data |-> MatVec(H, smoothed[n].m)]),
             variance   |-> AsSeq([n \in 1..num_data |->
                                MatMul(MatMul(H, smoothed[n].P), transpose(H))]),
             covariance |-> posterior_covariance]
    IN  moments(rauch_tung_striebel_smoother(shift(dt_train), filt, 1))

\* SparseMarkovGP.update_posterior: kalman_filter_pairs over the intervals,
\* the smoother with gains, then build_joint per interval; the paired-state
\* algebra is kept as terms of the site moments it is computed from, one term
\* per entry of the joint mean (2 state_dim) and covariance of an interval.
SparseMarkovGP_update_posterior(lik) ==
    LET num_transitions == Len(Z) - 1
        smoothed == Term("smoother", <<Term("kalman_filter_pairs", <<lik.mean, lik.covariance>>)>>)
        d == 2 * state_dim
    IN  [mean       |-> AsSeq([k \in 1..num_transitions |-> AsSeq([i \in 1..d |->
                            Term("build_joint.mean", <<k, i, smoothed>>)])]),
         variance   |-> AsSeq([k \in 1..num_transitions |-> AsSeq([i \in 1..d |->
                            AsSeq([j \in 1..d |->
                                Term("build_joint.cov", <<k, i, j, smoothed>>)])])]),
         covariance |-> posterior_covariance]

update_posterior(lik) ==
    CASE variant = "GP" -> GP_update_posterior(lik)
      [] variant = "SparseGP" -> SparseGP_update_posterior(lik)
      [] variant = "MarkovGP" -> MarkovGP_update_posterior(lik)
      [] variant = "SparseMarkovGP" -> SparseMarkovGP_update_posterior(lik)

\* ------------------------------------------------------------------------
\* cavity_distribution
\* ------------------------------------------------------------------------

\* the batches a caller selects (indices count from 1): the first point alone,
\* all points in reverse order; None stands for all points in order
Batches == {<<1>>, reverse(arange(NumData))}

\* batch_ind = None selects np.arange(self.num_data)
batch_or_all(batch_ind) == IF batch_ind = None THEN arange(num_data) ELSE batch_ind

\* BaseModel.compute_full_pseudo_nat: the selected rows of the site naturals
compute_full_pseudo_nat(batch_ind) ==
    [nat1 |-> AsSeq([i \in 1..Len(batch_ind) |-> pseudo_likelihood.nat1[batch_ind[i]]]),
     nat2 |-> AsSeq([i \in 1..Len(batch_ind) |-> pseudo_likelihood.nat2[batch_ind[i]]])]

\* SparseGP.compute_full_pseudo_nat: each selected site lifted to the
\* inducing space with its column w of Wuf = Kuu^-1 Kuf: w nat1, w nat2 w'
SparseGP_compute_full_pseudo_nat(batch_ind) ==
    LET Xb == AsSeq([i \in 1..Len(batch_ind) |-> X[batch_ind[i]]])
        lift(w, nat1, nat2) ==
            [nat1 |-> Vec(MatMul(w, Col(nat1))), nat2 |-> MatMul(MatMul(w, nat2), transpose(w))]
        lifted(Wuf) ==
            AsSeq([i \in 1..Len(batch_ind) |->
                lift(AsSeq([m \in 1..Len(Wuf) |-> <<Wuf[m][i]>>]),
                     pseudo_likelihood.nat1[batch_ind[i]],
                     pseudo_likelihood.nat2[batch_ind[i]])])
        unzip(full) == [nat1 |-> AsSeq([i \in 1..Len(full) |-> full[i].nat1]),
                        nat2 |-> AsSeq([i \in 1..Len(full) |-> full[i].nat2])]
    IN  unzip(lifted(cho_solve(K(Z, Z), K(Z, Xb))))

\* a faulty cavity that pairs each selected row with the site of the opposite row
cavity_of_opposite_site(batch_ind, power) ==
    LET b == batch_or_all(batch_ind)
        unzip(cav) == [mean |-> AsSeq([i \in 1..Len(b) |-> cav[i].mean]),
                       cov  |-> AsSeq([i \in 1..Len(b) |-> cav[i].cov])]
        cavities(nat) ==
            unzip(AsSeq([i \in 1..Len(b) |->
                      compute_cavity(posterior_mean[b[i]], posterior_variance[b[i]],
                                     nat.nat1[i], nat.nat2[i], power)]))
    IN  cavities(compute_full_pseudo_nat(AsSeq([i \in 1..Len(b) |-> num_data + 1 - b[i]])))

\* BaseModel.cavity_distribution (GP, MarkovGP): one cavity per batch member
BaseModel_cavity_distribution(batch_ind, power) ==
    LET b == batch_or_all(batch_ind)
        unzip(cav) == [mean |-> AsSeq([i \in 1..Len(b) |-> cav[i].mean]),
                       cov  |-> AsSeq([i \in 1..Len(b) |-> cav[i].cov])]
        cavities(nat) ==
            unzip(AsSeq([i \in 1..Len(b) |->
                      compute_cavity(posterior_mean[b[i]], posterior_variance[b[i]],
                                     nat.nat1[i], nat.nat2[i], power)]))
    IN  cavities(compute_full_pseudo_nat(b))

\* SparseGP.cavity_distribution: one cavity of q(u) per batch member
SparseGP_cavity_distribution(batch_ind, power) ==
    LET b == batch_or_all(batch_ind)
        unzip(cav) == [mean |-> AsSeq([i \in 1..Len(b) |-> cav[i].mean]),
                       cov  |-> AsSeq([i \in 1..Len(b) |-> cav[i].cov])]
        cavities(nat) ==
            unzip(AsSeq([i \in 1..Len(b) |->
                      compute_cavity(Vec(posterior_mean), posterior_covariance,
                                     nat.nat1[i], nat.nat2[i], power)]))
    IN  cavities(SparseGP_compute_full_pseudo_nat(b))

Max(a, b) == IF a >= b THEN a ELSE b

\* a faulty sparse-Markov cavity that removes the whole power from every interval
cavity_of_whole_power(batch_ind, power) ==
    LET cav(k) == <<posterior_mean[k], posterior_variance[k],
                    pseudo_likelihood.nat1[k], pseudo_likelihood.nat2[k], power>>
    IN  [mean |-> AsSeq([k \in 1..Len(posterior_mean) |-> Term("compute_cavity.mean", cav(k))]),
         cov  |-> AsSeq([k \in 1..Len(posterior_mean) |-> Term("compute_cavity.cov", cav(k))])]

\* SparseMarkovGP.cavity_distribution: batch_ind is not read; one cavity per
\* interval, removing the fraction power / max(num_neighbours, 1) of its site
SparseMarkovGP_cavity_distribution(batch_ind, power) ==
    LET fraction == AsSeq([k \in 1..Len(num_neighbours) |->
                       Div(power, Rat(Max(num_neighbours[k], 1)))])
        cav(k) == <<posterior_mean[k], posterior_variance[k],
                    pseudo_likelihood.nat1[k], pseudo_likelihood.nat2[k], fraction[k]>>
    IN  [mean |-> AsSeq([k \in 1..Len(posterior_mean) |-> Term("compute_cavity.mean", cav(k))]),
         cov  |-> AsSeq([k \in 1..Len(posterior_mean) |-> Term("compute_cavity.cov", cav(k))])]

cavity_distribution(batch_ind, power) ==
    CASE variant \in {"GP", "MarkovGP"} -> BaseModel_cavity_distribution(batch_ind, power)
      [] variant = "SparseGP" -> SparseGP_cavity_distribution(batch_ind, power)
      [] variant = "SparseMarkovGP" -> SparseMarkovGP_cavity_distribution(batch_ind, power)

CavityDistribution ==
    /\ constructed
    /\ \E batch_ind \in Batches \cup {None}, power \in {One, Half} :
           ret' = Called("cavity_distribution", [batch_ind |-> batch_ind, power |-> power],
                         cavity_distribution(batch_ind, power))
    /\ UNCHANGED <<fixed, pseudo_likelihood, posterior, projector, sites_changed, cycles,
                 predictions_before_update>>

\* ------------------------------------------------------------------------
\* group_natural_params
\* ------------------------------------------------------------------------

\* index_update(x, index[batch_ind], y): x with row batch_ind[i] replaced by y[i]
index_update(x, batch_ind, y) ==
    AsSeq([n \in 1..Len(x) |->
        IF \E i \in 1..Len(batch_ind) : batch_ind[i] = n
        THEN y[CHOOSE i \in 1..Len(batch_ind) : batch_ind[i] = n]
        ELSE x[n]])

\* BaseModel.group_natural_params: the scatter is skipped for batch_ind = None
\* and for every batch_ind with as many entries as there are data
BaseModel_group_natural_params(nat1, nat2, batch_ind) ==
    IF batch_ind # None /\ Len(batch_ind) # num_data
    THEN [nat1 |-> index_update(pseudo_likelihood.nat1, batch_ind, nat1),
          nat2 |-> index_update(pseudo_likelihood.nat2, batch_ind, nat2)]
    ELSE [nat1 |-> nat1, nat2 |-> nat2]

\* scan of sum_natural_params_by_group over (ind, nat1_n, nat2_n): per
\* interval the sum of its members' naturals and the number of members
RECURSIVE sum_natural_params_by_group(_, _, _, _)
sum_natural_params_by_group(carry, idx, nat1_n, nat2_n) ==
    IF idx = <<>> THEN carry
    ELSE LET k == Head(idx)
             next == [nat1    |-> [carry.nat1 EXCEPT ![k] = VecAdd(@, Head(nat1_n))],
                      nat2    |-> [carry.nat2 EXCEPT ![k] = MatAdd(@, Head(nat2_n))],
                      counter |-> [carry.counter EXCEPT ![k] = @ + 1]]
         IN  sum_natural_params_by_group(next, Tail(idx), Tail(nat1_n), Tail(nat2_n))

\* a faulty grouping that drops the share of the old site
group_without_residual(nat1_n, nat2_n, batch_ind) ==
    LET idx      == IF batch_ind = None THEN ind
                    ELSE AsSeq([i \in 1..Len(batch_ind) |-> ind[batch_ind[i]]])
        nk       == Len(pseudo_likelihood.nat1)
        d        == Len(pseudo_likelihood.nat1[1])
        summed   == sum_natural_params_by_group(
                        [nat1 |-> tile(zeros(d), nk),
                         nat2 |-> tile(Scale(Zero, eye(d)), nk),
                         counter |-> tile(0, nk)],
                        idx, nat1_n, nat2_n)
    IN  [nat1 |-> summed.nat1,
         nat2 |-> AsSeq([k \in 1..nk |-> MatAdd(summed.nat2[k], Scale(Jitter, eye(d)))])]

\* a grouping that takes every interval to hold one datum
group_with_one_neighbour(nat1_n, nat2_n, batch_ind) ==
    LET idx      == IF batch_ind = None THEN ind
                    ELSE AsSeq([i \in 1..Len(batch_ind) |-> ind[batch_ind[i]]])
        old_nat1 == pseudo_likelihood.nat1
        old_nat2 == pseudo_likelihood.nat2
        nk       == Len(old_nat1)
        d        == Len(old_nat1[1])
        summed   == sum_natural_params_by_group(
                        [nat1 |-> tile(zeros(d), nk),
                         nat2 |-> tile(Scale(Zero, eye(d)), nk),
                         counter |-> tile(0, nk)],
                        idx, nat1_n, nat2_n)
        rest(k)  == Sub(One, Div(Rat(summed.counter[k]), One))
    IN  [nat1 |-> AsSeq([k \in 1..nk |->
                     VecAdd(summed.nat1[k], VecScale(rest(k), old_nat1[k]))]),
         nat2 |-> AsSeq([k \in 1..nk |->
                     MatAdd(MatAdd(summed.nat2[k], Scale(rest(k), old_nat2[k])),
                            Scale(Jitter, eye(d)))])]

\* a grouping that adds no 1e-8 to nat2
group_without_jitter(nat1_n, nat2_n, batch_ind) ==
    LET idx      == IF batch_ind = None THEN ind
                    ELSE AsSeq([i \in 1..Len(batch_ind) |-> ind[batch_ind[i]]])
        old_nat1 == pseudo_likelihood.nat1
        old_nat2 == pseudo_likelihood.nat2
        nk       == Len(old_nat1)
        d        == Len(old_nat1[1])
        summed   == sum_natural_params_by_group(
                        [nat1 |-> tile(zeros(d), nk),
                         nat2 |-> tile(Scale(Zero, eye(d)), nk),
                         counter |-> tile(0, nk)],
                        idx, nat1_n, nat2_n)
        rest(k)  == Sub(One, Div(Rat(summed.counter[k]), Rat(Max(num_neighbours[k], 1))))
    IN  [nat1 |-> AsSeq([k \in 1..nk |->
                     VecAdd(summed.nat1[k], VecScale(rest(k), old_nat1[k]))]),
         nat2 |-> AsSeq([k \in 1..nk |->
                     MatAdd(summed.nat2[k], Scale(rest(k), old_nat2[k]))])]

\* SparseMarkovGP.group_natural_params
SparseMarkovGP_group_natural_params(nat1_n, nat2_n, batch_ind) ==
    LET idx      == IF batch_ind = None THEN ind
                    ELSE AsSeq([i \in 1..Len(batch_ind) |-> ind[batch_ind[i]]])
        old_nat1 == pseudo_likelihood.nat1
        old_nat2 == pseudo_likelihood.nat2
        nk       == Len(old_nat1)
        d        == Len(old_nat1[1])
        summed   == sum_natural_params_by_group(
                        [nat1 |-> tile(zeros(d), nk),
                         nat2 |-> tile(Scale(Zero, eye(d)), nk),
                         counter |-> tile(0, nk)],
                        idx, nat1_n, nat2_n)
        rest(k)  == Sub(One, Div(Rat(summed.counter[k]), Rat(Max(num_neighbours[k], 1))))
    IN  [nat1 |-> AsSeq([k \in 1..nk |->
                     VecAdd(summed.nat1[k], VecScale(rest(k), old_nat1[k]))]),
         nat2 |-> AsSeq([k \in 1..nk |->
                     MatAdd(MatAdd(summed.nat2[k], Scale(rest(k), old_nat2[k])),
                            Scale(Jitter, eye(d)))])]

group_natural_params(nat1, nat2, batch_ind) ==
    IF variant = "SparseMarkovGP"
    THEN SparseMarkovGP_group_natural_params(nat1, nat2, batch_ind)
    ELSE BaseModel_group_natural_params(nat1, nat2, batch_ind)

\* a batch that names the first datum twice, handed to the tied-site variant
RepeatedBatches == IF variant = "SparseMarkovGP" THEN {<<1, 1>>} ELSE {}

\* The naturals the engine computes for a batch: member i gets a value of its
\* own (SiteParam1 and SiteParam2 of 2 + i), different from every value the
\* mutators above store.
GroupNaturalParams ==
    /\ constructed
    /\ \E batch_ind \in Batches \cup {None} \cup RepeatedBatches :
           LET len == Len(batch_or_all(batch_ind))
               d   == Len(pseudo_likelihood.nat1[1])
               return(nat1, nat2, out) ==
                   ret' = Called("group_natural_params",
                                 [nat1 |-> nat1, nat2 |-> nat2, batch_ind |-> batch_ind],
                                 <<out.nat1, out.nat2>>)
               call(nat1, nat2) == return(nat1, nat2, group_natural_params(nat1, nat2, batch_ind))
           IN  call(AsSeq([i \in 1..len |-> SiteParam1(2 + i, d)]),
                    AsSeq([i \in 1..len |-> SiteParam2(2 + i, d)]))
    /\ UNCHANGED <<fixed, pseudo_likelihood, posterior, projector, sites_changed, cycles,
                 predictions_before_update>>

\* ------------------------------------------------------------------------
\* conditional_posterior_to_data, conditional_data_to_posterior
\* ------------------------------------------------------------------------

\* BaseModel.conditional_posterior_to_data (GP) and the temporal branch of
\* MarkovGP's: the stored moments of the selected rows
BaseModel_conditional_posterior_to_data(batch_ind) ==
    LET b == batch_or_all(batch_ind)
    IN  [mean_f |-> AsSeq([i \in 1..Len(b) |-> posterior_mean[ind[b[i]]]]),
         cov_f  |-> AsSeq([i \in 1..Len(b) |-> posterior_variance[ind[b[i]]]]),
         conditional_mean |-> conditional_mean]

\* SparseGP.conditional_posterior_to_data (post_cov has ndim < 3)
SparseGP_conditional_posterior_to_data(batch_ind) ==
    LET b  == batch_or_all(batch_ind)
        Xb == AsSeq([i \in 1..Len(b) |-> X[b[i]]])
        marginals(qf) ==
            [mean_f |-> AsSeq([i \in 1..Len(b) |-> <<qf.mean[i]>>]),
             cov_f  |-> AsSeq([i \in 1..Len(b) |-> <<<<qf.covariance[i][i]>>>>]),
             conditional_mean |-> conditional_mean]
    IN  marginals(sparse_conditional_post_to_data(Vec(posterior_mean), posterior_covariance,
                                                  Xb, Z))

\* H @ P for the batch: per member the conditional statistics of its input
\* against its interval
conditional_mean_of(b) ==
    AsSeq([i \in 1..Len(b) |-> Term("H @ P", <<X[b[i]], ind[b[i]]>>)])

\* SparseMarkovGP.conditional_posterior_to_data: caches W = H @ P of this batch
SparseMarkovGP_conditional_posterior_to_data(batch_ind) ==
    LET b == batch_or_all(batch_ind)
        W == conditional_mean_of(b)
    IN  [mean_f |-> AsSeq([i \in 1..Len(b) |->
                       Term("W @ post_mean", <<W[i], posterior_mean[ind[b[i]]]>>)]),
         cov_f  |-> AsSeq([i \in 1..Len(b) |->
                       Term("W @ post_cov @ W' + H @ T @ H'",
                            <<W[i], posterior_variance[ind[b[i]]]>>)]),
         conditional_mean |-> W]

conditional_posterior_to_data(batch_ind) ==
    CASE variant \in {"GP", "MarkovGP"} -> BaseModel_conditional_posterior_to_data(batch_ind)
      [] variant = "SparseGP" -> SparseGP_conditional_posterior_to_data(batch_ind)
      [] variant = "SparseMarkovGP" -> SparseMarkovGP_conditional_posterior_to_data(batch_ind)

ConditionalPosteriorToData ==
    /\ constructed
    /\ \E batch_ind \in Batches \cup {None} :
           LET return(out) ==
                   /\ conditional_mean' = out.conditional_mean
                   /\ conditional_mean_at' =
                          IF variant = "SparseMarkovGP"
                          THEN [batch |-> batch_or_all(batch_ind), cycle |-> cycles]
                          ELSE conditional_mean_at
                   /\ ret' = Called("conditional_posterior_to_data", [batch_ind |-> batch_ind],
                                    <<out.mean_f, out.cov_f>>)
           IN  return(conditional_posterior_to_data(batch_ind))
    /\ UNCHANGED <<fixed, pseudo_likelihood, posterior, sites_changed, cycles,
                 predictions_before_update>>

at(a, i) == IF Len(a) = 1 THEN a[1] ELSE a[i]

\* a reverse step that recomputes the projector for the data it is handed
\* (row i of mean_f is about datum mean_f[i][1]) instead of taking the cached W
data_to_posterior_with_own_projector(W, mean_f, cov_f) ==
    LET own == conditional_mean_of(AsSeq([i \in 1..Len(mean_f) |-> mean_f[i][1][1]]))
    IN  [mean_q |-> AsSeq([i \in 1..Len(mean_f) |-> Term("W' @ mean_f", <<own[i], mean_f[i]>>)]),
         cov_q  |-> AsSeq([i \in 1..Len(mean_f) |-> Term("W' @ cov_f @ W", <<own[i], cov_f[i]>>)])]

\* SparseMarkovGP.conditional_data_to_posterior with a cached projector W
SparseMarkovGP_conditional_data_to_posterior(W, mean_f, cov_f) ==
    LET len == Max(Len(W), Len(mean_f))
    IN  [mean_q |-> AsSeq([i \in 1..len |-> Term("W' @ mean_f", <<at(W, i), at(mean_f, i)>>)]),
         cov_q  |-> AsSeq([i \in 1..len |-> Term("W' @ cov_f @ W", <<at(W, i), at(cov_f, i)>>)])]

\* The moments the engine hands back for a batch are about its data: row i
\* is about datum b[i].  W @ mean_f runs over leading batch dimensions that
\* must agree unless one of them is 1, which is repeated; otherwise the array
\* library raises.
ConditionalDataToPosterior ==
    /\ constructed
    /\ \E b \in Batches :
           LET mean_f == AsSeq([i \in 1..Len(b) |-> <<Rat(b[i])>>])
               cov_f  == AsSeq([i \in 1..Len(b) |-> <<<<Rat(b[i])>>>>])
               la     == Len(conditional_mean)
               arg    == [batch |-> b, mean_f |-> mean_f, cov_f |-> cov_f,
                          conditional_mean |-> conditional_mean]
               op     == "conditional_data_to_posterior"
           IN  IF variant # "SparseMarkovGP"
               THEN ret' = Called(op, arg, <<mean_f, cov_f>>)
               ELSE IF conditional_mean = None \/ ~(la = Len(b) \/ la = 1 \/ Len(b) = 1)
               THEN \E e \in {"TypeError", "ValueError"} : ret' = Raised(op, arg, e)
               ELSE LET q == SparseMarkovGP_conditional_data_to_posterior(
                                 conditional_mean, mean_f, cov_f)
                    IN  ret' = Called(op, arg, <<q.mean_q, q.cov_q>>)
    /\ UNCHANGED <<fixed, pseudo_likelihood, posterior, projector, sites_changed, cycles,
                 predictions_before_update>>

\* ------------------------------------------------------------------------
\* Queries
\* ------------------------------------------------------------------------

\* everything but the record of the last call
object == <<fixed, pseudo_likelihood, posterior, projector, sites_changed, cycles,
                 predictions_before_update>>

\* the record of a call that returned res.val or raised res.err
Answer(op, arg, res) ==
    IF res.err = "" THEN Called(op, arg, res.val) ELSE Raised(op, arg, res.err)

\* np.where(~self.mask_y)[0]: the rows of Y that are observed, in order
RECURSIVE where_not(_, _)
where_not(mask, n) ==
    IF n = 0 THEN <<>>
    ELSE where_not(mask, n - 1) \o (IF mask[n] THEN <<>> ELSE <<n>>)

\* self.obs_ind (GP and SparseGP)
obs_ind == where_not(mask_y, Len(mask_y))

\* a[idx] of a jax array: an index past the end reads the last row
take(a, idx) ==
    AsSeq([i \in 1..Len(idx) |-> a[IF idx[i] > Len(a) THEN Len(a) ELSE idx[i]]])

\* the log normaliser of N(pseudo_y | 0, Ky), kept as a term of its inputs:
\*   -1/2 y' Ky^-1 y - sum(log(diag(Ly))) - 1/2 n log(2 pi)
log_lik_pseudo(pseudo_y, Ky) == Term("log_lik_pseudo", <<pseudo_y, Ky>>)

\* GP.compute_log_lik: the stored sites unless pseudo_y is given, observed
\* rows only
GP_compute_log_lik(pseudo_y, pseudo_var) ==
    LET Xo == take(X, obs_ind)
        y == take(IF pseudo_y = None THEN pseudo_likelihood.mean ELSE pseudo_y, obs_ind)
        v == take(IF pseudo_y = None THEN pseudo_likelihood.covariance ELSE pseudo_var, obs_ind)
    IN  [err |-> "", val |-> log_lik_pseudo(y, MatAdd(K(Xo, Xo), SiteDiag(v)))]

\* SparseGP.compute_log_lik: Ky = Kuu + pseudo_var with the arguments as they
\* are; None + array is a TypeError
SparseGP_compute_log_lik(pseudo_y, pseudo_var) ==
    IF pseudo_var = None \/ pseudo_y = None
    THEN [err |-> "TypeError", val |-> <<>>]
    ELSE [err |-> "",
          val |-> log_lik_pseudo(pseudo_y, Term("Kuu + pseudo_var", <<K(Z, Z), pseudo_var>>))]

\* MarkovGP.compute_log_lik: the filter's log likelihood for the stored
\* sites unless pseudo_y is given
MarkovGP_compute_log_lik(pseudo_y, pseudo_var) ==
    [err |-> "",
     val |-> Term("kalman_filter.log_lik",
                  <<dt_train,
                    IF pseudo_y = None THEN pseudo_likelihood.mean ELSE pseudo_y,
                    IF pseudo_y = None THEN pseudo_likelihood.covariance ELSE pseudo_var,
                    mask_pseudo_y>>)]

\* SparseMarkovGP.compute_log_lik: the arguments are not read
SparseMarkovGP_compute_log_lik(pseudo_y, pseudo_var) ==
    [err |-> "",
     val |-> Term("kalman_filter_pairs.log_lik",
                  <<diff(Z), pseudo_likelihood.mean, pseudo_likelihood.covariance>>)]

compute_log_lik(pseudo_y, pseudo_var) ==
    CASE variant = "GP" -> GP_compute_log_lik(pseudo_y, pseudo_var)
      [] variant = "SparseGP" -> SparseGP_compute_log_lik(pseudo_y, pseudo_var)
      [] variant = "MarkovGP" -> MarkovGP_compute_log_lik(pseudo_y, pseudo_var)
      [] variant = "SparseMarkovGP" -> SparseMarkovGP_compute_log_lik(pseudo_y, pseudo_var)

\* compute_log_lik()
ComputeLogLik ==
    /\ constructed
    /\ ret' = Answer("compute_log_lik", <<>>, compute_log_lik(None, None))
    /\ UNCHANGED object

\* ------------------------------------------------------------------------
\* MarkovGP.predict and MarkovGP.posterior_sample
\* ------------------------------------------------------------------------

\* np.unique(X): the distinct times in ascending order
RECURSIVE dedupe(_)
dedupe(s) ==
    IF Len(s) < 2 THEN s
    ELSE IF s[1] = s[2] THEN dedupe(Tail(s))
    ELSE <<s[1]>> \o dedupe(Tail(s))

unique(s) == dedupe(sort(s))

\* the return_inverse part of np.unique: where each time of s is in u
inverse(s, u) == AsSeq([n \in 1..Len(s) |-> CHOOSE k \in 1..Len(u) : u[k] = s[n]])

\* MarkovGP.predict(X, pseudo_lik_params): the filter over self.dt with the
\* stored sites (or with the given ones), the smoother with return_full over
\* the shifted steps, temporal_conditional at each test time between the
\* sentinels, then H; kept as terms of what is read.
MarkovGP_predict(Xarg, pseudo_lik_params) ==
    LET Xs == IF Xarg = None THEN X ELSE Xarg
        lik == IF pseudo_lik_params = None
               THEN <<pseudo_likelihood.mean, pseudo_likelihood.covariance>>
               ELSE pseudo_lik_params
        smoothed == Term("rauch_tung_striebel_smoother",
                         <<shift(dt_train),
                           Term("kalman_filter", <<dt_train, lik[1], lik[2], mask_pseudo_y>>)>>)
        X_aug == <<-inf>> \o X \o <<inf>>
    IN  [mean |-> AsSeq([j \in 1..Len(Xs) |->
                     Term("H @ state_mean", <<X_aug, Xs[j], smoothed>>)]),
         var  |-> AsSeq([j \in 1..Len(Xs) |->
                     Term("H @ state_cov @ H.T", <<X_aug, Xs[j], smoothed>>)])]

\* row i of prior_samp[:, train_ind] + lik_chol @ normal(generator(seed))
prior_samp_y(prior_samp, train_ind, num_samps, seed, i) ==
    AsSeq([n \in 1..Len(train_ind) |->
        Term("prior_samp_train + lik_chol @ normal",
             <<prior_samp[i][train_ind[n]], pseudo_likelihood.covariance[n],
               i, n, normal(<<num_samps, Len(train_ind)>>, seed)>>)])

\* MarkovGP.posterior_sample without the selection of the test columns
posterior_sample_at_every_input(Xarg, num_samps, seed) ==
    LET draw(Xu, train_ind, test_ind) ==
            LET smoothed(prior_samp, i) ==
                    MarkovGP_predict(Xu, <<prior_samp_y(prior_samp, train_ind, num_samps, seed, i),
                                           pseudo_likelihood.covariance>>).mean
                combine(post_mean, prior_samp) ==
                    AsSeq([i \in 1..num_samps |-> AsSeq([j \in 1..Len(post_mean) |->
                        Term("prior_samp - smoothed_samples + post_mean",
                             <<prior_samp[i][j], smoothed(prior_samp, i)[j], post_mean[j]>>)])])
            IN  combine(MarkovGP_predict(Xu, None).mean,
                        MarkovGP_prior_sample(num_samps, Xu, seed).val)
        joined(Xu) == draw(Xu, inverse(X, Xu), inverse(Xarg, Xu))
    IN  [err |-> "",
         val |-> IF Xarg = None THEN draw(None, arange(num_data), arange(num_data))
                 ELSE joined(unique(X \o Xarg))]

\* MarkovGP.posterior_sample(X, num_samps, seed)
MarkovGP_posterior_sample(Xarg, num_samps, seed) ==
    LET draw(Xu, train_ind, test_ind) ==
            LET smoothed(prior_samp, i) ==
                    MarkovGP_predict(Xu, <<prior_samp_y(prior_samp, train_ind, num_samps, seed, i),
                                           pseudo_likelihood.covariance>>).mean
                combine(post_mean, prior_samp) ==
                    AsSeq([i \in 1..num_samps |-> AsSeq([j \in 1..Len(test_ind) |->
                        Term("prior_samp - smoothed_samples + post_mean",
                             <<prior_samp[i][test_ind[j]],
                               smoothed(prior_samp, i)[test_ind[j]],
                               post_mean[test_ind[j]]>>)])])
            IN  combine(MarkovGP_predict(Xu, None).mean,
                        MarkovGP_prior_sample(num_samps, Xu, seed).val)
        joined(Xu) == draw(Xu, inverse(X, Xu), inverse(Xarg, Xu))
    IN  [err |-> "",
         val |-> IF Xarg = None THEN draw(None, arange(num_data), arange(num_data))
                 ELSE joined(unique(X \o Xarg))]

\* posterior_sample of the class constructed: GP and SparseGP have none;
\* SparseMarkovGP has MarkovGP's, whose calls of predict do not fit
\* SparseMarkovGP.predict (no default for X, no pseudo_lik_params)
posterior_sample(Xarg, num_samps, seed) ==
    CASE variant \in {"GP", "SparseGP"} -> [err |-> "AttributeError", val |-> <<>>]
      [] variant = "MarkovGP" -> MarkovGP_posterior_sample(Xarg, num_samps, seed)
      [] variant = "SparseMarkovGP" ->
             [err |-> IF Xarg = None THEN "AttributeError" ELSE "TypeError", val |-> <<>>]

PosteriorSample ==
    /\ constructed
    /\ \E a \in SampleArgs :
           ret' = Answer("posterior_sample", a, posterior_sample(a.X, a.num_samps, a.seed))
    /\ UNCHANGED object

\* ------------------------------------------------------------------------
\* compute_full_pseudo_nat, compute_full_pseudo_lik, compute_kl, predict
\* ------------------------------------------------------------------------

ComputeFullPseudoNat ==
    /\ constructed
    /\ \E batch_ind \in Batches :
           LET answer(nat) ==
                   ret' = Called("compute_full_pseudo_nat", batch_ind, <<nat.nat1, nat.nat2>>)
           IN  answer(IF variant = "SparseGP"
                      THEN SparseGP_compute_full_pseudo_nat(batch_ind)
                      ELSE compute_full_pseudo_nat(batch_ind))
    /\ UNCHANGED object

\* indices into an array of n rows, as jax reads them
clamp(idx, n) == AsSeq([i \in 1..Len(idx) |-> IF idx[i] > n THEN n ELSE idx[i]])

\* compute_full_pseudo_lik: the site means and covariances (BaseModel,
\* MarkovGP in the temporal case, SparseMarkovGP); SparseGP lifts the
\* observed sites to the inducing space and inverts nat2 + 1e-12 I
compute_full_pseudo_lik ==
    IF variant = "SparseGP"
    THEN LET moments(nat) ==
                 <<Term("pseudo_var_full @ nat1lik_full", <<nat.nat1, nat.nat2>>),
                   Term("inv_vmap(nat2lik_full + 1e-12 I)", <<nat.nat2>>)>>
         IN  moments(SparseGP_compute_full_pseudo_nat(clamp(obs_ind, num_data)))
    ELSE <<pseudo_likelihood.mean, pseudo_likelihood.covariance>>

ComputeFullPseudoLik ==
    /\ constructed
    /\ ret' = Called("compute_full_pseudo_lik", <<>>, compute_full_pseudo_lik)
    /\ UNCHANGED object

\* SparseGP.compute_global_pseudo_lik: the observed sites as one Gaussian
\* over the inducing points
compute_global_pseudo_lik ==
    LET Xo == take(X, obs_ind)
        global(Wuf) ==
            <<Term("pseudo_var_full @ nat1lik_full",
                   <<Wuf, take(pseudo_likelihood.nat1, obs_ind), take(pseudo_likelihood.nat2, obs_ind)>>),
              Term("inv(nat2lik_full + 1e-12 I)",
                   <<Wuf, take(pseudo_likelihood.nat2, obs_ind)>>)>>
    IN  global(cho_solve(K(Z, Z), K(Z, Xo)))

\* sum of gaussian_expected_log_lik over the sites, under a stored posterior
expected_density(pseudo_y, post_mean, post_cov, pseudo_var, mask) ==
    Term("gaussian_expected_log_lik", <<pseudo_y, post_mean, post_cov, pseudo_var, mask>>)

\* BaseModel.expected_density_pseudo
expected_density_pseudo ==
    expected_density(pseudo_likelihood.mean, posterior_mean, posterior_variance,
                     pseudo_likelihood.covariance, mask_pseudo_y)

\* kl = expected_density_pseudo - log_lik_pseudo, or the error of compute_log_lik
kl(expected, log_lik) ==
    IF log_lik.err # "" THEN log_lik
    ELSE [err |-> "",
          val |-> Term("expected_density_pseudo - log_lik_pseudo", <<expected, log_lik.val>>)]

\* compute_kl of GP, SparseGP, MarkovGP and SparseMarkovGP
compute_kl ==
    CASE variant = "GP" ->
             kl(expected_density_pseudo, GP_compute_log_lik(None, None))
      [] variant = "SparseGP" ->
             LET with(lik) ==
                     kl(expected_density(lik[1], posterior_mean, posterior_covariance,
                                         lik[2], None),
                        SparseGP_compute_log_lik(lik[1], lik[2]))
             IN  with(compute_global_pseudo_lik)
      [] variant = "MarkovGP" ->
             kl(expected_density_pseudo,
                MarkovGP_compute_log_lik(pseudo_likelihood.mean, pseudo_likelihood.covariance))
      [] variant = "SparseMarkovGP" ->
             kl(expected_density_pseudo, SparseMarkovGP_compute_log_lik(None, None))

ComputeKL ==
    /\ constructed
    /\ ret' = Answer("compute_kl", <<>>, compute_kl)
    /\ UNCHANGED object

\* the stored posterior, as a record
stored_posterior ==
    [mean |-> posterior_mean, variance |-> posterior_variance,
     covariance |-> posterior_covariance]

\* what a predict call does: it raises, or it returns val and leaves post as
\* the stored posterior; X without a shape (None) is an AttributeError
no_shape == [err |-> "AttributeError", val |-> <<>>, post |-> stored_posterior]

\* GP.predict answered from the stored posterior
GP_predict_from_posterior(Xarg) ==
    IF Xarg = None THEN no_shape
    ELSE [err |-> "",
          val |-> <<Term("predict_mean", <<posterior_mean, Xarg>>),
                    Term("predict_variance", <<posterior_variance, Xarg>>)>>,
          post |-> stored_posterior]

\* GP.predict: gaussian_conditional of the stored sites at the test inputs
GP_predict(Xarg) ==
    IF Xarg = None THEN no_shape
    ELSE LET diagonal(c) ==
                 [err |-> "",
                  val |-> <<c.mean, AsSeq([j \in 1..Len(Xarg) |-> c.covariance[j][j]])>>,
                  post |-> stored_posterior]
         IN  diagonal(gaussian_conditional(pseudo_likelihood.mean,
                                           pseudo_likelihood.covariance, X, Xarg))

\* a SparseGP.predict that maps the posterior of the current sites to the test
\* inputs and stores nothing
SparseGP_predict_read_only(Xarg) ==
    IF Xarg = None THEN no_shape
    ELSE LET mapped(c) ==
                 [err |-> "",
                  val |-> <<c.mean, AsSeq([j \in 1..Len(Xarg) |-> c.covariance[j][j]])>>,
                  post |-> stored_posterior]
             updated(post) ==
                 mapped(sparse_conditional_post_to_data(Vec(post.mean), post.covariance,
                                                        Xarg, Z))
         IN  updated(SparseGP_update_posterior(pseudo_likelihood))

\* SparseGP.predict: update_posterior first, then q(u) mapped to the test inputs
SparseGP_predict(Xarg) ==
    IF Xarg = None THEN no_shape
    ELSE LET mapped(post, c) ==
                 [err |-> "",
                  val |-> <<c.mean, AsSeq([j \in 1..Len(Xarg) |-> c.covariance[j][j]])>>,
                  post |-> post]
             updated(post) ==
                 mapped(post, sparse_conditional_post_to_data(Vec(post.mean), post.covariance,
                                                              Xarg, Z))
         IN  updated(SparseGP_update_posterior(pseudo_likelihood))

\* SparseMarkovGP.predict: kalman_filter_pairs over dz with the stored
\* sites, the smoother with return_full, temporal_conditional on Z, then H
SparseMarkovGP_predict(Xarg) ==
    IF Xarg = None THEN no_shape
    ELSE LET smoothed == Term("rauch_tung_striebel_smoother",
                              <<Tail(diff(Z)),
                                Term("kalman_filter_pairs",
                                     <<diff(Z), pseudo_likelihood.mean,
                                       pseudo_likelihood.covariance>>)>>)
         IN  [err |-> "",
              val |-> <<AsSeq([j \in 1..Len(Xarg) |->
                            Term("H @ state_mean", <<Z, Xarg[j], smoothed>>)]),
                        AsSeq([j \in 1..Len(Xarg) |->
                            Term("H @ state_cov @ H.T", <<Z, Xarg[j], smoothed>>)])>>,
              post |-> stored_posterior]

\* predict(X) of the class constructed
predict(Xarg) ==
    CASE variant = "GP" -> GP_predict(Xarg)
      [] variant = "SparseGP" -> SparseGP_predict(Xarg)
      [] variant = "MarkovGP" ->
             LET returned(p) == [err |-> "", val |-> <<p.mean, p.var>>,
                                 post |-> stored_posterior]
             IN  returned(MarkovGP_predict(Xarg, None))
      [] variant = "SparseMarkovGP" -> SparseMarkovGP_predict(Xarg)

Predict ==
    /\ constructed
    /\ \E Xarg \in TestInputs :
           LET answer(res) ==
                   /\ ret' = Answer("predict", Xarg, res)
                   /\ posterior_mean' = res.post.mean
                   /\ posterior_variance' = res.post.variance
                   /\ posterior_covariance' = res.post.covariance
                   /\ sites_changed' = (sites_changed /\ ~(variant = "SparseGP" /\ res.err = ""))
           IN  answer(predict(Xarg))
    /\ UNCHANGED <<fixed, pseudo_likelihood, projector, cycles, predictions_before_update>>

PriorSample ==
    /\ constructed
    /\ \E a \in SampleArgs :
           ret' = Answer("prior_sample", a, prior_sample(a.num_samps, a.X, a.seed))
    /\ UNCHANGED object

\* what predict returns or raises for each test input
Predictions ==
    LET outcome(Xarg, res) == [X |-> Xarg, err |-> res.err, val |-> res.val]
    IN  {outcome(Xarg, predict(Xarg)) : Xarg \in TestInputs}

\* update_posterior that also writes a hyperparameter of the kernel
UpdatePosteriorRescalingKernel ==
    LET store(post) ==
            /\ posterior_mean' = post.mean
            /\ posterior_variance' = post.variance
            /\ posterior_covariance' = post.covariance
    IN  /\ constructed
        /\ store(update_posterior(pseudo_likelihood))
        /\ sites_changed' = FALSE
        /\ predictions_before_update' = Predictions
        /\ ret' = Called("update_posterior", <<>>, <<>>)
        /\ kernel' = [kernel EXCEPT !.variance = Half]
        /\ UNCHANGED <<variant, constructed, num_data, mask_y, mask_pseudo_y, Z, ind,
                       num_neighbours, Z_arg, fresh_prior_sample, likelihood, pseudo_likelihood,
                       projector, cycles>>

UpdatePosterior ==
    LET store(post) ==
            /\ posterior_mean' = post.mean
            /\ posterior_variance' = post.variance
            /\ posterior_covariance' = post.covariance
    IN  /\ constructed
        /\ store(update_posterior(pseudo_likelihood))
        /\ sites_changed' = FALSE
        /\ predictions_before_update' = Predictions
        /\ ret' = Called("update_posterior", <<>>, <<>>)
        /\ UNCHANGED <<fixed, pseudo_likelihood, projector, cycles>>

Next ==
    \/ SetMeanCov
    \/ SetNatParams
    \/ StoreGrouped
    \/ UpdatePosterior
    \/ CavityDistribution
    \/ GroupNaturalParams
    \/ ConditionalPosteriorToData
    \/ ConditionalDataToPosterior

Spec == Init /\ [][Next]_vars

\* the site mutators, update_posterior and the calls that return a value
NextQ ==
    \/ SetMeanCov
    \/ SetNatParams
    \/ UpdatePosterior
    \/ CavityDistribution
    \/ GroupNaturalParams
    \/ PriorSample
    \/ ComputeLogLik
    \/ PosteriorSample
    \/ ComputeFullPseudoNat
    \/ ComputeFullPseudoLik
    \/ ComputeKL
    \/ Predict

SpecQ == Init /\ [][NextQ]_vars

\* the site store under mutator calls that succeed and that fail, next to the
\* calls that do not read it
NextS ==
    \/ UpdateMeanCov
    \/ UpdateNatParams
    \/ PriorSample

SpecS == Init /\ [][NextS]_vars

\* The inducing inputs a SparseMarkovGP is built with when the constructor's
\* treatment of Z is the question: the sequences of 1 to NumInducing + 1
\* times among the first and the last training input; the longest of them
\* are handed in out of order.
ZInputs ==
    {s \in UNION {[1..M -> {X[1], X[NumData]}] : M \in 1..(NumInducing + 1)} :
        Len(s) > NumInducing => s[1] > s[Len(s)]}

InitZ ==
    \E Zin \in ZInputs :
        LET bound(obj) ==
                /\ kernel = KernelGiven
                /\ likelihood = LikelihoodGiven
                /\ variant = "SparseMarkovGP"
                /\ Z_arg = AsSeq(Zin)
                /\ constructed = obj.ok
                /\ num_data = obj.num_data
                /\ mask_y = obj.mask_y
                /\ mask_pseudo_y = obj.mask_pseudo_y
                /\ Z = obj.Z
                /\ ind = obj.ind
                /\ num_neighbours = obj.num_neighbours
                /\ pseudo_likelihood = obj.pseudo_likelihood
                /\ posterior_mean = obj.posterior_mean
                /\ posterior_variance = obj.posterior_variance
                /\ posterior_covariance = obj.posterior_covariance
                /\ conditional_mean = obj.conditional_mean
                /\ conditional_mean_at = NoProjector
                /\ ret = NoCall
                /\ sites_changed = TRUE
                /\ cycles = 0
                /\ predictions_before_update = {}
                /\ fresh_prior_sample =
                       [a \in SampleArgs |-> prior_sample(a.num_samps, a.X, a.seed)]
        IN  bound(SparseMarkovGP_init(X, AsSeq([n \in 1..NumData |-> Observed]),
                                      AsSeq(Zin)))

SpecZ == InitZ /\ [][Next]_vars

\* ------------------------------------------------------------------------
\* Properties
\* ------------------------------------------------------------------------

Sites == 1..Len(pseudo_likelihood.mean)

\* C1: after construction and after every update_mean_cov or update_nat_params,
\* for every site n the stored covariance times nat1 is the stored mean and
\* the stored covariance times nat2 is the identity.
C1_DualParameterisationsConsistent ==
    constructed =>
        \A n \in Sites :
            /\ MatVec(pseudo_likelihood.covariance[n], pseudo_likelihood.nat1[n])
                   = pseudo_likelihood.mean[n]
            /\ MatMul(pseudo_likelihood.covariance[n], pseudo_likelihood.nat2[n])
                   = eye(Len(pseudo_likelihood.mean[n]))

\* both mutators have acted: grouped naturals were stored by update_nat_params
\* over sites that update_mean_cov had set, and the covariance is not the identity
C1_Witness ==
    /\ constructed
    /\ ret.op = "update_nat_params"
    /\ cycles = 1
    /\ \E n \in Sites : pseudo_likelihood.covariance[n] # eye(Len(pseudo_likelihood.mean[n]))
    /\ \E n \in Sites : pseudo_likelihood.nat1[n] # zeros(Len(pseudo_likelihood.mean[n]))

SparseMarkovCall(op) == constructed /\ variant = "SparseMarkovGP" /\ ret.op = op

\* C2: on a SparseMarkovGP, conditional_data_to_posterior called while the
\* cached conditional_mean is still None ends in a precondition violation, not
\* in a result and not in another failure.
C2_MisuseIsPreconditionViolation ==
    (SparseMarkovCall("conditional_data_to_posterior") /\ ret.arg.conditional_mean = None)
        => ret.err = "precondition violation"

\* C3 as stated: whenever conditional_data_to_posterior returns on a
\* SparseMarkovGP, the cached projector was computed for the batch the moments
\* are about, in the same inference cycle.
C3_ProjectorOfSameStepAndBatch ==
    (SparseMarkovCall("conditional_data_to_posterior") /\ ret.err = "")
        => conditional_mean_at = [batch |-> ret.arg.batch, cycle |-> cycles]

\* C3: the projector conditional_data_to_posterior applies is the one cached by
\* the most recent conditional_posterior_to_data call, whatever its batch and
\* whatever cycle it ran in: the cache holds H @ P of that call's batch, and the
\* result pairs row i of the moments with row i of the cache (a single row is
\* repeated).
C3_ProjectorIsLastCached ==
    /\ (constructed /\ variant = "SparseMarkovGP" /\ conditional_mean # None)
           => conditional_mean = conditional_mean_of(conditional_mean_at.batch)
    /\ (SparseMarkovCall("conditional_data_to_posterior") /\ ret.err = "")
           => LET W == conditional_mean_of(conditional_mean_at.batch)
                  len == Max(Len(W), Len(ret.arg.mean_f))
              IN  /\ Len(ret.val[1]) = len
                  /\ Len(ret.val[2]) = len
                  /\ \A i \in 1..len :
                        /\ ret.val[1][i] = Term("W' @ mean_f", <<at(W, i), at(ret.arg.mean_f, i)>>)
                        /\ ret.val[2][i] = Term("W' @ cov_f @ W", <<at(W, i), at(ret.arg.cov_f, i)>>)

\* the reverse step ran with a projector left over from another batch and an
\* earlier cycle
C3_Witness ==
    /\ SparseMarkovCall("conditional_data_to_posterior")
    /\ ret.err = ""
    /\ conditional_mean_at.batch # ret.arg.batch
    /\ conditional_mean_at.cycle < cycles

\* the members of a batch assigned to interval k, as positions in the batch
Members(b, k) == {i \in 1..Len(b) : ind[b[i]] = k}

\* C4: SparseMarkovGP.group_natural_params returns for every interval k the sum
\* of the supplied naturals of the batch members assigned to k plus
\* (1 - c_k / N_k) times the stored naturals of k, c_k the number of those
\* members and N_k = max(num_neighbours[k], 1); nat2 gets 1e-8 I on top, nat1
\* does not.
C4_GroupingRule ==
    SparseMarkovCall("group_natural_params") =>
        LET b    == batch_or_all(ret.arg.batch_ind)
            d    == Len(pseudo_likelihood.nat1[1])
            share(k) == Sub(One, Div(Rat(Cardinality(Members(b, k))),
                                     Rat(Max(num_neighbours[k], 1))))
            sum1(k, r) == SumTo(AsSeq([i \in 1..Len(b) |->
                              IF i \in Members(b, k) THEN ret.arg.nat1[i][r] ELSE Zero]), Len(b))
            sum2(k, r, c) == SumTo(AsSeq([i \in 1..Len(b) |->
                              IF i \in Members(b, k) THEN ret.arg.nat2[i][r][c] ELSE Zero]), Len(b))
        IN  /\ Len(ret.val[1]) = Len(Z) - 1
            /\ Len(ret.val[2]) = Len(Z) - 1
            /\ \A k \in 1..(Len(Z) - 1), r \in 1..d :
                  /\ ret.val[1][k][r] =
                         Add(sum1(k, r), Mul(share(k), pseudo_likelihood.nat1[k][r]))
                  /\ \A c \in 1..d :
                         ret.val[2][k][r][c] =
                             Add(Add(sum2(k, r, c), Mul(share(k), pseudo_likelihood.nat2[k][r][c])),
                                 IF r = c THEN Jitter ELSE Zero)

\* one of the two data of an interval is in the batch, so half of the old site
\* stays, and the old site is one that an earlier grouping produced
C4_Witness ==
    /\ SparseMarkovCall("group_natural_params")
    /\ ret.arg.batch_ind = <<1>>
    /\ num_neighbours[1] = 2
    /\ cycles = 1

\* C5: for GP, SparseGP and MarkovGP, group_natural_params with any batch_ind
\* returns arrays with one row per datum in which row batch_ind[i] holds the
\* i-th supplied naturals and every other row holds the stored value.
C5_ScatterForEveryBatch ==
    (constructed /\ variant # "SparseMarkovGP" /\ ret.op = "group_natural_params"
         /\ ret.arg.batch_ind # None)
        => LET b == ret.arg.batch_ind
               row(n, new, old) ==
                   IF \E i \in 1..Len(b) : b[i] = n
                   THEN new[CHOOSE i \in 1..Len(b) : b[i] = n]
                   ELSE old[n]
           IN  /\ Len(ret.val[1]) = num_data
               /\ Len(ret.val[2]) = num_data
               /\ \A n \in 1..num_data :
                     /\ ret.val[1][n] = row(n, ret.arg.nat1, pseudo_likelihood.nat1)
                     /\ ret.val[2][n] = row(n, ret.arg.nat2, pseudo_likelihood.nat2)

\* Moments are arrays of numbers or, in the sparse-Markov model once
\* update_posterior has run, arrays of terms; TLC compares the two kinds in
\* their printed form.
Same(a, b) == ToString(a) = ToString(b)

\* the stored posterior moments are what update_posterior computes from the
\* current contents of the site store
PosteriorIsCurrent ==
    LET post == update_posterior(pseudo_likelihood)
    IN  /\ Same(posterior_mean, post.mean)
        /\ Same(posterior_variance, post.variance)
        /\ Same(posterior_covariance, post.covariance)

ReadsPosterior == ret.op \in {"cavity_distribution", "conditional_posterior_to_data"}

RECURSIVE Unmasked(_, _)
Unmasked(a, mask) ==
    IF a = <<>> THEN <<>>
    ELSE (IF Head(mask) THEN <<>> ELSE <<Head(a)>>) \o Unmasked(Tail(a), Tail(mask))

\* update_posterior of the same class of model built with the masked rows
\* removed from X, Y and the site store
PosteriorWithRowsRemoved ==
    LET Xr   == Unmasked(X, mask_y)
        mean == Unmasked(pseudo_likelihood.mean, mask_y)
        cov  == Unmasked(pseudo_likelihood.covariance, mask_y)
        nr   == Len(Xr)
    IN  IF variant = "GP"
        THEN LET post == gaussian_conditional(mean, cov, Xr, Xr)
             IN  [mean     |-> AsSeq([n \in 1..nr |-> <<post.mean[n]>>]),
                  variance |-> AsSeq([n \in 1..nr |-> <<<<post.covariance[n][n]>>>>])]
        ELSE LET steps == input_admin(Xr, Xr).dt
                 filt == kalman_filter(steps, mean, cov, None, nr)
                 smoothed == rauch_tung_striebel_smoother(shift(steps), filt, 1)
             IN  [mean     |-> AsSeq([n \in 1..nr |-> smoothed[n].m]),
                  variance |-> AsSeq([n \in 1..nr |-> smoothed[n].P])]

\* C7: with a row of Y missing, the posterior that update_posterior stores for
\* the remaining rows is the posterior of the model built without that row, in
\* GP as in MarkovGP.
C7_MaskedRowContributesNothing ==
    (/\ constructed
     /\ variant \in {"GP", "MarkovGP"}
     /\ Len(mask_y) = num_data
     /\ \E n \in 1..num_data : mask_y[n]
     /\ ~sites_changed)
        => LET removed == PosteriorWithRowsRemoved
           IN  /\ Unmasked(posterior_mean, mask_y) = removed.mean
               /\ Unmasked(posterior_variance, mask_y) = removed.variance

CavityCall == constructed /\ ret.op = "cavity_distribution"

AddSite(cav_mean, cav_cov, nat1, nat2) ==
    LET cav_nat2 == inv(cav_cov)
        cov == inv(MatAdd(cav_nat2, nat2))
    IN  [mean |-> MatVec(cov, VecAdd(MatVec(cav_nat2, cav_mean), nat1)), cov |-> cov]

\* a cavity call for one point with power 1 on a model with numeric moments
SingleSiteCavityCall ==
    /\ CavityCall
    /\ variant # "SparseMarkovGP"
    /\ ret.arg.power = One
    /\ Len(batch_or_all(ret.arg.batch_ind)) = 1

\* adding the site of the selected point back onto the returned cavity gives
\* the stored posterior mean and covariance
SiteAddedBackIsPosterior ==
    LET b   == batch_or_all(ret.arg.batch_ind)
        nat == IF variant = "SparseGP" THEN SparseGP_compute_full_pseudo_nat(b)
               ELSE compute_full_pseudo_nat(b)
        back == AddSite(ret.val.mean[1], ret.val.cov[1], nat.nat1[1], nat.nat2[1])
    IN  IF variant = "SparseGP"
        THEN back.mean = Vec(posterior_mean) /\ back.cov = posterior_covariance
        ELSE back.mean = posterior_mean[b[1]] /\ back.cov = posterior_variance[b[1]]

AllFinite(A) == \A i \in 1..Len(A) : \A j \in 1..Len(A[i]) : IsFinite(A[i][j])

C10_RowMismatchFailsConstruction ==
    constructed => num_data = Len(mask_y)

\* the state right after construction, before any method was called
Fresh == constructed /\ ret = NoCall

AllZero(ms) == \A n \in 1..Len(ms) : \A i \in 1..Len(ms[n]) : ms[n][i] = Zero

\* every matrix of the container is diagonal with its diagonal entries in S
DiagonalIn(covs, S) ==
    \A n \in 1..Len(covs) : \A i \in 1..Len(covs[n]) : \A j \in 1..Len(covs[n]) :
        IF i = j THEN covs[n][i][j] \in S ELSE covs[n][i][j] = Zero

\* C11: right after construction, for every variant, the site means and
\* the posterior means are zero and the site covariances and the posterior
\* variances are diagonal with 100 in every diagonal entry.
C11_ContainersZeroAndHundred ==
    Fresh => /\ AllZero(pseudo_likelihood.mean)
             /\ AllZero(posterior_mean)
             /\ DiagonalIn(pseudo_likelihood.covariance, {Rat(100)})
             /\ DiagonalIn(posterior_variance, {Rat(100)})

\* C11 as the constructors have it: zero means everywhere; the site
\* covariance is 100 I for GP, SparseGP and MarkovGP and the inverse of the
\* initial precision (entries 1e8 and 1e2) for SparseMarkovGP; the posterior
\* variance is the identity.
C11_ZeroMeansLargeSitesUnitPosterior ==
    Fresh => /\ AllZero(pseudo_likelihood.mean)
             /\ AllZero(posterior_mean)
             /\ DiagonalIn(pseudo_likelihood.covariance,
                           IF variant = "SparseMarkovGP"
                           THEN {Rat(100000000), Rat(100)} ELSE {Rat(100)})
             /\ DiagonalIn(posterior_variance, {One})

C11_Witness ==
    /\ Fresh
    /\ variant = "MarkovGP"
    /\ pseudo_likelihood.covariance[NumData] = <<<<Rat(100)>>>>
    /\ posterior_variance[NumData] = <<<<One>>>>

\* every matrix of the container is diagonal, with entry at index S (counted
\* from 0, state_dim + 1 here) equal to atS for the marked intervals and to rest
\* elsewhere
DiagonalMarked(mats, atS, rest, marked) ==
    \A k \in 1..Len(mats) : \A i \in 1..Len(mats[k]) : \A j \in 1..Len(mats[k]) :
        mats[k][i][j] = IF i # j THEN Zero
                        ELSE IF k \in marked /\ i = state_dim + 1 THEN atS
                        ELSE rest

EveryInterval == 1..(Len(Z) - 1)

NotLastInterval == 1..(Len(Z) - 2)

\* C12: a freshly built SparseMarkovGP has, for every interval, a site
\* covariance with zero off-diagonals, 1e-2 at diagonal index S and 1e-8 in
\* every other diagonal entry.
C12_InitialSiteCovariance ==
    (Fresh /\ variant = "SparseMarkovGP") =>
        DiagonalMarked(pseudo_likelihood.covariance, Hundredth, Jitter, EveryInterval)

\* C12 as the constructor has it: 1e-2 and 1e-8 are entries of the site
\* precision nat2, the covariance holds their inverses 1e2 and 1e8, and the
\* last interval has 1e-8 (covariance 1e8) at index S too.
C12_InitialSitePrecision ==
    (Fresh /\ variant = "SparseMarkovGP") =>
        /\ DiagonalMarked(pseudo_likelihood.nat2, Hundredth, Jitter, NotLastInterval)
        /\ DiagonalMarked(pseudo_likelihood.covariance, Rat(100), Rat(100000000),
                          NotLastInterval)

C12_Witness ==
    /\ Fresh
    /\ variant = "SparseMarkovGP"
    /\ Len(pseudo_likelihood.nat2) = NumInducing + 1
    /\ pseudo_likelihood.nat2[1][state_dim + 1][state_dim + 1] = Hundredth
    /\ pseudo_likelihood.nat2[NumInducing + 1][state_dim + 1][state_dim + 1] = Jitter

\* how often x occurs in the sequence s
Count(x, s) == Cardinality({i \in 1..Len(s) : s[i] = x})

\* every entry of a container of vectors (matrices) has dimension d (d x d)
VectorsOfDim(ms, d) == \A k \in 1..Len(ms) : Len(ms[k]) = d

MatricesOfDim(Ps, d) ==
    \A k \in 1..Len(Ps) : Len(Ps[k]) = d /\ \A i \in 1..d : Len(Ps[k][i]) = d

\* C13: a SparseMarkovGP built from any Z of length M, sorted or not, stores
\* the times of Z in nondecreasing order between -1e10 and 1e10, so that
\* every dz[k] >= 0 and num_transitions = M + 1, and its site store and its
\* posterior hold num_transitions entries of dimension 2 state_dim, at
\* construction and after every later operation.
C13_InducingGridAndContainers ==
    constructed =>
        LET M == Len(Z_arg)
            num_transitions == Len(diff(Z))
            d == 2 * state_dim
        IN  /\ Len(Z) = M + 2
            /\ Z[1] = -inf /\ Z[M + 2] = inf
            /\ \A m \in 1..M : Count(Z_arg[m], SubSeq(Z, 2, M + 1)) = Count(Z_arg[m], Z_arg)
            /\ \A k \in 1..(M + 1) : Z[k] <= Z[k + 1] /\ diff(Z)[k] >= 0
            /\ num_transitions = M + 1
            /\ Len(pseudo_likelihood.mean) = num_transitions
            /\ Len(pseudo_likelihood.covariance) = num_transitions
            /\ Len(pseudo_likelihood.nat1) = num_transitions
            /\ Len(pseudo_likelihood.nat2) = num_transitions
            /\ Len(posterior_mean) = num_transitions
            /\ Len(posterior_variance) = num_transitions
            /\ VectorsOfDim(pseudo_likelihood.mean, d)
            /\ VectorsOfDim(pseudo_likelihood.nat1, d)
            /\ VectorsOfDim(posterior_mean, d)
            /\ MatricesOfDim(pseudo_likelihood.covariance, d)
            /\ MatricesOfDim(pseudo_likelihood.nat2, d)
            /\ MatricesOfDim(posterior_variance, d)

\* a model built from an unsorted Z whose sites were replaced and whose
\* posterior was recomputed
C13_Witness ==
    /\ constructed
    /\ Len(Z_arg) = NumInducing + 1
    /\ Z_arg[1] > Z_arg[2]
    /\ cycles > 0
    /\ ret.op = "update_posterior"

\* the shape of a container of vectors, of a container of matrices and of a
\* matrix
ShapeV(ms) == AsSeq([k \in 1..Len(ms) |-> Len(ms[k])])

MatShape(A) == <<Len(A), {Len(A[i]) : i \in 1..Len(A)}>>

ShapeM(Ps) == AsSeq([k \in 1..Len(Ps) |-> MatShape(Ps[k])])

\* the object as the constructor leaves it
Allocated == Construct(variant, AsSeq([n \in 1..NumData |-> Observed]))

KeepsShape(a) ==
    /\ ShapeV(pseudo_likelihood.mean) = ShapeV(a.pseudo_likelihood.mean)
    /\ ShapeV(pseudo_likelihood.nat1) = ShapeV(a.pseudo_likelihood.nat1)
    /\ ShapeM(pseudo_likelihood.covariance) = ShapeM(a.pseudo_likelihood.covariance)
    /\ ShapeM(pseudo_likelihood.nat2) = ShapeM(a.pseudo_likelihood.nat2)
    /\ ShapeV(posterior_mean) = ShapeV(a.posterior_mean)
    /\ ShapeM(posterior_variance) = ShapeM(a.posterior_variance)
    /\ MatShape(posterior_covariance) = MatShape(a.posterior_covariance)

C17_LogLikWithoutArgumentsReturns ==
    (constructed /\ ret.op = "compute_log_lik") => ret.err = ""

\* the sample posterior_sample is to return for test input j of draw i:
\* f_prior - E[f_prior | y_prior] + mu_post at that test input, with
\* E[f_prior | y_prior] the mean predict gives for the pseudo-observations
\* y_prior and the stored site covariance
DoucetSample(a, i, j) ==
    LET Xu == IF a.X = None THEN None ELSE unique(X \o a.X)
        at_test == IF a.X = None THEN j ELSE CHOOSE k \in 1..Len(Xu) : Xu[k] = a.X[j]
        train == IF a.X = None THEN arange(num_data) ELSE inverse(X, Xu)
        f_prior == MarkovGP_prior_sample(a.num_samps, Xu, a.seed).val
        y_prior == prior_samp_y(f_prior, train, a.num_samps, a.seed, i)
    IN  Term("prior_samp - smoothed_samples + post_mean",
             <<f_prior[i][at_test],
               MarkovGP_predict(Xu, <<y_prior, pseudo_likelihood.covariance>>).mean[at_test],
               MarkovGP_predict(Xu, None).mean[at_test]>>)

SmoothedFromSites ==
    LET steps == AsSeq([n \in 1..num_data |->
                     IF n < num_data THEN dt_train[n + 1] ELSE 0])
        project(smoothed) ==
            [mean |-> AsSeq([n \in 1..num_data |-> MatVec(measurement_model, smoothed[n].m)]),
             variance |-> AsSeq([n \in 1..num_data |->
                 MatMul(MatMul(measurement_model, smoothed[n].P),
                        transpose(measurement_model))])]
        smooth(filtered) == project(rauch_tung_striebel_smoother(steps, filtered, 1))
    IN  smooth(kalman_filter(dt_train, pseudo_likelihood.mean, pseudo_likelihood.covariance,
                             mask_pseudo_y, num_data))

\* C19: update_posterior of a MarkovGP filters the current sites over dt,
\* smooths the filter's outputs over the shifted steps and stores the
\* smoother's means and covariances as posterior_mean and
\* posterior_variance; the site store is as it was.
C19_FilterThenShiftedSmoother ==
    [][(variant = "MarkovGP" /\ ret'.op = "update_posterior") =>
          /\ pseudo_likelihood' = pseudo_likelihood
          /\ posterior_mean' = SmoothedFromSites.mean
          /\ posterior_variance' = SmoothedFromSites.variance]_vars

\* a MarkovGP with a missing observation whose sites were replaced and whose
\* posterior was then recomputed
C19_Witness ==
    /\ variant = "MarkovGP"
    /\ ret.op = "update_posterior"
    /\ \E n \in 1..num_data : mask_pseudo_y[n]
    /\ pseudo_likelihood # Allocated.pseudo_likelihood
    /\ posterior_mean # Allocated.posterior_mean

\* the operations that are queries
QueryOps ==
    {"cavity_distribution", "compute_full_pseudo_nat", "compute_full_pseudo_lik",
     "group_natural_params", "compute_log_lik", "compute_kl"}

\* C20: cavity_distribution, compute_full_pseudo_nat, compute_full_pseudo_lik,
\* group_natural_params, compute_log_lik and compute_kl of every variant,
\* and predict of GP, MarkovGP and SparseMarkovGP, leave the site store and
\* the stored posterior as they were; and what predict of GP, MarkovGP and
\* SparseMarkovGP returns right after an update_posterior is what it
\* returned right before it.
C20_QueriesLeaveSitesAndPosterior ==
    /\ [][(ret'.op \in QueryOps \/ (ret'.op = "predict" /\ variant # "SparseGP")) =>
              (pseudo_likelihood' = pseudo_likelihood /\ posterior' = posterior)]_vars
    /\ []((ret.op = "update_posterior" /\ variant # "SparseGP") =>
              Predictions = predictions_before_update)

\* a prediction of a MarkovGP whose sites were replaced and whose posterior
\* was then recomputed, equal to the prediction from before the recomputation
C20_Witness ==
    /\ variant = "MarkovGP"
    /\ ret.op = "predict"
    /\ ret.err = ""
    /\ ~sites_changed
    /\ pseudo_likelihood # Allocated.pseudo_likelihood
    /\ [X |-> ret.arg, err |-> "", val |-> ret.val] \in predictions_before_update

\* C21: after every SparseGP.predict call that returns, the stored posterior
\* mean, variance and covariance are the ones update_posterior computes from
\* the current site store, whatever site mutations came before the call.
C21_SparseGPPredictRefreshesPosterior ==
    (variant = "SparseGP" /\ ret.op = "predict" /\ ret.err = "") => PosteriorIsCurrent

\* a SparseGP whose sites were replaced and on which predict, and never
\* update_posterior, was then called: predict overwrote the posterior
C21_Witness ==
    /\ variant = "SparseGP"
    /\ ret.op = "predict"
    /\ ret.err = ""
    /\ pseudo_likelihood # Allocated.pseudo_likelihood
    /\ predictions_before_update = {}
    /\ posterior_mean # Allocated.posterior_mean
    /\ posterior_covariance # Allocated.posterior_covariance

\* a number in [0, 1]
InUnit(w) == IsFinite(w) /\ w[1] >= 0 /\ w[1] <= w[2]

\* the weight of the old site of interval k in what group_natural_params
\* returned: the returned nat2, less the members' nat2 and the 1e-8, over
\* the stored nat2 (first diagonal entry)
ResidualWeight(k) ==
    LET b == batch_or_all(ret.arg.batch_ind)
        members == SumTo(AsSeq([i \in 1..Len(b) |->
                       IF i \in Members(b, k) THEN ret.arg.nat2[i][1][1] ELSE Zero]), Len(b))
    IN  Div(Sub(Sub(ret.val[2][k][1][1], members), Jitter), pseudo_likelihood.nat2[k][1][1])

\* C22 as stated: for every batch_ind, one with a repeated index included, the
\* weight of the old site lies in [0, 1] for every interval, and is 0 for
\* every interval with a datum when the batch is the full data set.
C22_ResidualWeightInUnitInterval ==
    SparseMarkovCall("group_natural_params") =>
        \A k \in 1..(Len(Z) - 1) :
            /\ InUnit(ResidualWeight(k))
            /\ (ret.arg.batch_ind = None /\ num_neighbours[k] > 0) => ResidualWeight(k) = Zero

\* C22: for every batch_ind that names no datum twice the weight of the old
\* site lies in [0, 1] for every interval; it is 0 for every interval with a
\* datum when the batch is the full data set (None or a permutation of all
\* indices), and it is 1 - c_k / N_k, below 0 when c_k > N_k, for a batch that
\* names a datum twice.
C22_ResidualWeightInUnitIntervalWithoutRepeats ==
    SparseMarkovCall("group_natural_params") =>
        LET b == batch_or_all(ret.arg.batch_ind)
            distinct == \A i, j \in 1..Len(b) : b[i] = b[j] => i = j
        IN  \A k \in 1..(Len(Z) - 1) :
                /\ distinct => InUnit(ResidualWeight(k))
                /\ (distinct /\ Len(b) = num_data /\ num_neighbours[k] > 0) =>
                       ResidualWeight(k) = Zero
                /\ ResidualWeight(k) =
                       Sub(One, Div(Rat(Cardinality(Members(b, k))),
                                    Rat(Max(num_neighbours[k], 1))))

\* a full batch replaced the site of an interval that holds data, a site that
\* an earlier grouping produced
C22_Witness ==
    /\ SparseMarkovCall("group_natural_params")
    /\ batch_or_all(ret.arg.batch_ind) = reverse(arange(num_data))
    /\ \E k \in 1..(Len(Z) - 1) :
           /\ num_neighbours[k] > 0
           /\ ResidualWeight(k) = Zero
    /\ cycles > 0

C24_NoTwoDrawsShareASeed ==
    (variant \in {"MarkovGP", "SparseMarkovGP"} /\ ret.op = "prior_sample" /\ ret.err = "") =>
        LET seed == ret.arg.seed
            draws == 0..(ret.arg.num_samps - 1)
            steps == 0..(Len(ret.val[1]) - 1)
        IN  \A i \in draws, j \in draws, k \in steps, l \in steps :
                /\ gen_seed(seed, i, k) = gen_seed(seed, j, l) => (i = j /\ k = l)
                /\ gen_seed(seed, i, k) # gen0_seed(seed, j)

\* C25: an update_mean_cov or update_nat_params call that raises leaves the
\* mean, covariance, nat1 and nat2 of the site store as they were before the
\* call.
C25_FailedMutatorLeavesStore ==
    [][(ret'.op \in {"update_mean_cov", "update_nat_params"} /\ ret'.err # "") =>
           pseudo_likelihood' = pseudo_likelihood]_vars

====
